---- MODULE Spec2Model ----
(***************************************************************************)
(* Model of the LLM Council backend: the streaming endpoint                *)
(* send_message_stream (backend/main.py) with its clarification            *)
(* negotiator (backend/clarifier.py) and the staged council pipeline       *)
(* (backend/council.py).                                                   *)
(***************************************************************************)
EXTENDS Integers, Sequences, FiniteSets, TLC

\* ---------------------------------------------------------------- bounds
\* user turns stored in one conversation
MaxTurns == 5
\* entries in the "questions" list of one clarifier answer
MaxQuestions == 2
\* council members taken from the configured roster
NumCouncil == 1

\* ------------------------------------------------------ program constants
\* main.py:418  "if clarification_count >= 4"
MAX_ROUNDS == 4
\* main.py:424  "force_followup = clarification_count < 2"
MIN_ROUNDS == 2

\* config.py:15-20, cut to the first NumCouncil members
COUNCIL_MODELS == [i \in 1..NumCouncil |-> i]

\* ------------------------------------------------------------ conversation
\* A stored turn: role, the two clarification flags and whether it carries a
\* stage3 response (the final answer of a pipeline run).
UserMsg == [role |-> "user", is_clarification |-> FALSE,
            is_final_clarification |-> FALSE, stage3 |-> FALSE]

ClarificationMsg == [role |-> "assistant", is_clarification |-> TRUE,
                     is_final_clarification |-> FALSE, stage3 |-> FALSE]

FinalMsg == [role |-> "assistant", is_clarification |-> TRUE,
             is_final_clarification |-> TRUE, stage3 |-> FALSE]

AssistantMsg == [role |-> "assistant", is_clarification |-> FALSE,
                 is_final_clarification |-> FALSE, stage3 |-> TRUE]

NoMsg == [role |-> "none", is_clarification |-> FALSE,
          is_final_clarification |-> FALSE, stage3 |-> FALSE]

clarification_count_mut(messages) ==
    Len(SelectSeq(messages, LAMBDA m : m.is_clarification
                                          /\ ~m.is_final_clarification))

\* sum(1 for m in conversation["messages"] if m.get("is_clarification"))
clarification_count(messages) ==
    Len(SelectSeq(messages, LAMBDA m : m.is_clarification))

last_assistant_msg_mut(messages) ==
    LET idx == {i \in 1..Len(messages) : messages[i].role = "assistant"}
    IN  IF idx = {} THEN NoMsg
        ELSE messages[CHOOSE i \in idx : \A j \in idx : i <= j]

\* next((m for m in reversed(messages) if m["role"] == "assistant"), None)
last_assistant_msg(messages) ==
    LET idx == {i \in 1..Len(messages) : messages[i].role = "assistant"}
    IN  IF idx = {} THEN NoMsg
        ELSE messages[CHOOSE i \in idx : \A j \in idx : j <= i]

is_final_check_any(messages) ==
    \E i \in 1..Len(messages) : messages[i].is_final_clarification

is_final_check_last(messages) ==
    Len(messages) > 0 /\ messages[Len(messages)].is_final_clarification

\* last_assistant_msg and last_assistant_msg.get("is_final_clarification")
is_final_check(messages) ==
    last_assistant_msg(messages).is_final_clarification

force_followup_mut(cc) == cc < MIN_ROUNDS + 1

\* force_followup = clarification_count < 2
force_followup(cc) == cc < MIN_ROUNDS

max_rounds_reached_mut(cc) == cc >= MAX_ROUNDS + 1

\* if clarification_count >= 4
max_rounds_reached(cc) == cc >= MAX_ROUNDS

NumUserTurns(messages) ==
    Len(SelectSeq(messages, LAMBDA m : m.role = "user"))

\* --------------------------------------------------------------- clarifier
\* What the clarifier model call can come back with: no response, a raised
\* exception, or a content string.  A content string either is not JSON, is
\* JSON but not an object, or is an object whose "sufficient" field is
\* true / false / null / absent and whose "questions" field is absent or a
\* list of strings, objects and other values.  The questions of an answer
\* that counts as sufficient are never read (main.py:441 sits in the
\* insufficient branch), so those answers are drawn without them.
QuestionKinds == {"str", "dict", "other"}

QuestionLists ==
    UNION {[1..n -> QuestionKinds] : n \in 0..MaxQuestions}

Absent == <<"absent">>

ClarifierResponses ==
    {[status |-> "none", json |-> "-", sufficient |-> "-", questions |-> Absent],
     [status |-> "raise", json |-> "-", sufficient |-> "-", questions |-> Absent],
     [status |-> "ok", json |-> "invalid", sufficient |-> "-", questions |-> Absent],
     [status |-> "ok", json |-> "nondict", sufficient |-> "-", questions |-> Absent]}
    \cup
    [status : {"ok"}, json : {"dict"}, sufficient : {"true", "absent"},
     questions : {Absent}]
    \cup
    [status : {"ok"}, json : {"dict"}, sufficient : {"false", "null"},
     questions : QuestionLists \cup {Absent}]

\* How a clarifier answer is logged: the call failed or its content was not
\* JSON ("failed"), the content was JSON but no object ("nondict"), or it
\* was an object ("dict").
ResponseClass(response) ==
    IF response.status # "ok" \/ response.json = "invalid" THEN "failed"
    ELSE response.json

\* clarity_result as main.py sees it
NoResult == [isdict |-> FALSE, sufficient |-> "-", questions |-> Absent,
             refined_topic |-> "-"]

FailOpenResult == [isdict |-> TRUE, sufficient |-> "true", questions |-> Absent,
                   refined_topic |-> "latest_user_message"]

MaxRoundsResult == [isdict |-> TRUE, sufficient |-> "true", questions |-> Absent,
                    refined_topic |-> "Max rounds reached"]

\* clarifier.py:92-117: any exception inside the try (no response, raised
\* call, json.loads failure) yields the fallback dict; otherwise whatever
\* json.loads returned is handed back, object or not.
assess_clarity(response) ==
    IF response.status # "ok" \/ response.json = "invalid"
    THEN FailOpenResult
    ELSE IF response.json = "nondict"
    THEN NoResult
    ELSE [isdict |-> TRUE, sufficient |-> response.sufficient,
          questions |-> response.questions, refined_topic |-> "model"]

\* clarity_result.get("sufficient", True), taken as a truth value
sufficient(clarity_result) ==
    clarity_result.sufficient \in {"true", "absent"}

\* main.py:441-453: questions defaults to [], only a list is walked, and
\* only its str and dict entries are kept
processed_questions(clarity_result) ==
    IF clarity_result.questions = Absent THEN <<>>
    ELSE SelectSeq(clarity_result.questions, LAMBDA q : q \in {"str", "dict"})

\* ------------------------------------------------------------------- state
VARIABLES
    stored,            \* messages of the conversation as held by storage
    title,             \* conversation title as held by storage
    conversation,      \* conversation["messages"] of the running request
    is_first_message,  \* main.py:299
    pc,                \* where event_generator stands
    events,            \* event frames yielded on the stream so far
    calls,             \* model / retrieval calls issued by this request
    clarity_result,    \* main.py:420 / 427
    title_task,        \* main.py:377-381: "none", "running" or "done"
    stage0_result,     \* main.py:532 / 540
    search_context,    \* main.py:531 / 542
    stage1_results,    \* main.py:562
    stage2_results,    \* main.py:570
    stage3_result,     \* main.py:580
    stage4_result,     \* main.py:590
    user_query,        \* council.py:188: the query handed to stage 2
    label_to_model,    \* council.py:205-208
    ranking_prompt,    \* council.py:225-254
    ranking_text,      \* council.py:356: the text handed to the parser
    parsed_ranking,    \* council.py:266: what the parser returned
    aggregate_rankings,\* main.py:573
    raw_response,      \* council.py:106: the text to compact
    max_chars,         \* prompt_optimizer.py:163: the character ceiling
    optimized,         \* prompt_optimizer.py:198: the compacted text
    current_messages,  \* main.py:553: the messages handed to stage 1
    metadata,          \* council.py:547: what run_full_council returns last
    other_request,     \* a second request on the same conversation
    query_text,        \* main.py:316: the text whose mentions are parsed
    available_repos,   \* rag.py:152: the names of the known repositories
    parse_result       \* main.py:317: what parse_mentions returned

vars == <<stored, title, conversation, is_first_message, pc, events, calls,
          clarity_result, title_task, stage0_result, search_context,
          stage1_results, stage2_results, stage3_result,
          stage4_result, user_query, label_to_model, ranking_prompt,
          ranking_text, parsed_ranking, aggregate_rankings,
          raw_response, max_chars, optimized, current_messages, metadata,
          other_request, query_text, available_repos, parse_result>>

\* the locals of a second request: where it stands and its
\* conversation["messages"]
NoRequest == [pc |-> "idle", conversation |-> <<>>]

\* metadata before run_full_council has built it
NoMetadata == [built |-> FALSE]

\* parse_result before the mentions are parsed
NoParse == [cleaned_query |-> <<>>, repositories |-> <<>>, files |-> <<>>]

\* what the mention parser works on
mentions == <<query_text, available_repos, parse_result>>

\* what only the non-streaming run, a second request and the mention
\* parser work on
aside == <<metadata, other_request, mentions>>

\* what the context compactor works on
compaction == <<raw_response, max_chars, optimized>>

\* what stage 2 and the ranking parser work on
ranking == <<user_query, label_to_model, ranking_prompt, ranking_text,
             parsed_ranking, aggregate_rankings>>

stages == <<stage0_result, search_context, stage1_results, stage2_results,
            stage3_result, stage4_result>>

Event(t) == [type |-> t, questions |-> 0]

\* A logged call: what was called, which council member (0 when the call is
\* not a fan-out call), the force flag of an assessment, and how an
\* assessment came back.
Call(k) == [kind |-> k, model |-> 0, force |-> FALSE, result |-> "-"]

\* stage3_result before stage 3 ran
NoStage3 == [model |-> "none", response |-> "none"]

\* stage4_result before stage 4 ran
NoStage4 == [generated |-> FALSE, image_data |-> "none", error |-> "unset"]

\* stage0_result before any search ran (main.py:532-536)
Stage0Default == [searched |-> FALSE, response |-> "none"]

Init ==
    /\ stored = <<>>
    /\ title = "New Conversation"
    /\ conversation = <<>>
    /\ is_first_message = FALSE
    /\ pc = "idle"
    /\ events = <<>>
    /\ calls = <<>>
    /\ clarity_result = NoResult
    /\ title_task = "none"
    /\ stage0_result = Stage0Default
    /\ search_context = "none"
    /\ stage1_results = <<>>
    /\ stage2_results = <<>>
    /\ stage3_result = NoStage3
    /\ stage4_result = NoStage4
    /\ user_query = "none"
    /\ label_to_model = <<>>
    /\ ranking_prompt = "none"
    /\ ranking_text = <<>>
    /\ parsed_ranking = <<>>
    /\ aggregate_rankings = <<>>
    /\ raw_response = <<>>
    /\ max_chars = 0
    /\ optimized = <<>>
    /\ current_messages = <<>>
    /\ metadata = NoMetadata
    /\ other_request = NoRequest
    /\ query_text = <<>>
    /\ available_repos = <<>>
    /\ parse_result = NoParse

\* ----------------------------------------------------------------- storage
\* storage.get_conversation: the messages storage holds
get_conversation(held) == held

\* storage.save_conversation: what storage holds becomes the conversation
\* handed in
save_conversation(messages) == messages

\* storage.add_assistant_message: the assistant turn with its stage results
\* is appended to what storage holds
add_assistant_message(held) == Append(held, AssistantMsg)

\* ------------------------------------------------------------ LLM history
\* A message as the models get it: its role and its content, the text of
\* the stored turn at position "of", either as stored or as
\* processed_content, the text of the request with the attachment and
\* retrieval context merged in.
Content(i, processed) == [of |-> i, processed |-> processed]

\* main.py:34-50: user turns with their stored content, assistant turns
\* that carry a stage3 response with that response, nothing else
format_history_for_llm(messages) ==
    LET kept == SelectSeq([i \in 1..Len(messages) |-> i],
                    LAMBDA i : \/ messages[i].role = "user"
                               \/ /\ messages[i].role = "assistant"
                                  /\ messages[i].stage3)
    IN  [k \in 1..Len(kept) |->
            [role |-> messages[kept[k]].role,
             content |-> Content(kept[k], FALSE)]]

\* main.py:384: history; it is taken right after the user turn was
\* appended, and on the way to stage 1 nothing is appended after that
history == format_history_for_llm(conversation)

\* main.py:553-559: current_messages = history.copy(), then the user
\* message with processed_content is appended
make_current_messages(past) ==
    Append(past, [role |-> "user",
                  content |-> Content(Len(conversation), TRUE)])

\* ------------------------------------------------------- exception handler
OnException_mut ==
    /\ events' = events
    /\ pc' = "done"

\* main.py:614-616: whatever was raised inside the try is turned into one
\* error frame and the generator ends.
OnException ==
    /\ events' = Append(events, Event("error"))
    /\ pc' = "done"

\* ----------------------------------------------------------------- request
\* main.py:291-299: load the conversation, start the generator.
StartRequest(limit) ==
    /\ pc \in {"idle", "done"}
    /\ NumUserTurns(stored) < limit
    /\ conversation' = get_conversation(stored)
    /\ is_first_message' = (Len(stored) = 0)
    /\ pc' = "process_attachments"
    /\ events' = <<>>
    /\ calls' = <<>>
    /\ clarity_result' = NoResult
    /\ title_task' = "none"
    /\ stage0_result' = Stage0Default
    /\ search_context' = "none"
    /\ stage1_results' = <<>>
    /\ stage2_results' = <<>>
    /\ stage3_result' = NoStage3
    /\ stage4_result' = NoStage4
    /\ current_messages' = <<>>
    /\ UNCHANGED <<ranking, compaction, aside, stored, title>>

send_message_stream == StartRequest(MaxTurns)

\* main.py:301-306: attachments, when the request has any, are read and
\* folded into processed_content; a malformed attachment entry raises.
ProcessAttachments ==
    /\ pc = "process_attachments"
    /\ \/ /\ pc' = "rag_retrieval"
          /\ UNCHANGED events
       \/ /\ OnException
    /\ UNCHANGED <<ranking, compaction, aside, current_messages,
                   stored, title, conversation, is_first_message, calls,
                   clarity_result, title_task, stages>>

\* main.py:308-364: with use_rag the mentions are parsed and the knowledge
\* base is queried before anything else happens to the turn.
RagRetrieval ==
    /\ pc = "rag_retrieval"
    /\ \E use_rag \in BOOLEAN :
        \/ /\ ~use_rag
           /\ pc' = "add_user_message"
           /\ UNCHANGED <<calls, events>>
        \/ /\ use_rag
           /\ calls' = Append(calls, Call("retrieval"))
           /\ pc' = "add_user_message"
           /\ UNCHANGED events
        \/ /\ use_rag
           /\ OnException
           /\ UNCHANGED calls
    /\ UNCHANGED <<ranking, compaction, aside, current_messages,
                   stored, title, conversation, is_first_message,
                   clarity_result, title_task, stages>>

\* main.py:366-381: append the user turn, save, start the title task on a
\* first message.
AddUserMessage ==
    /\ pc = "add_user_message"
    /\ conversation' = Append(conversation, UserMsg)
    /\ \/ /\ stored' = save_conversation(conversation')
          /\ title_task' = IF is_first_message THEN "running" ELSE "none"
          /\ pc' = "clarification_start"
          /\ UNCHANGED events
       \/ /\ OnException
          /\ UNCHANGED <<stored, title_task>>
    /\ UNCHANGED <<ranking, compaction, aside, current_messages,
                   title, is_first_message, calls, clarity_result, stages>>

\* council.py:437-472 run as an asyncio task: it finishes at some point of
\* its own.
TitleTaskFinish ==
    /\ title_task = "running"
    /\ title_task' = "done"
    /\ UNCHANGED <<ranking, compaction, aside, current_messages,
                   stored, title, conversation, is_first_message, pc, events,
                   calls, clarity_result, stages>>

\* main.py:400
ClarificationStart ==
    /\ pc = "clarification_start"
    /\ events' = Append(events, Event("clarification_start"))
    /\ pc' = "assess_clarity"
    /\ UNCHANGED <<ranking, compaction, aside, current_messages,
                   stored, title, conversation, is_first_message, calls,
                   clarity_result, title_task, stages>>

\* main.py:412-431: count the rounds, then either skip the assessment
\* (max rounds) or call the clarifier with the force flag.
AssessClarity ==
    /\ pc = "assess_clarity"
    /\ LET cc == clarification_count(conversation)
       IN  IF max_rounds_reached(cc)
           THEN /\ clarity_result' = MaxRoundsResult
                /\ UNCHANGED calls
           ELSE \E response \in ClarifierResponses :
                   /\ calls' = Append(calls,
                          [kind |-> "assess", model |-> 0,
                           force |-> force_followup(cc),
                           result |-> ResponseClass(response)])
                   /\ clarity_result' = assess_clarity(response)
    /\ pc' = "clarity_decision"
    /\ UNCHANGED <<ranking, compaction, aside, current_messages,
                   stored, title, conversation, is_first_message, events,
                   title_task, stages>>

\* ------------------------------------------------------------- negotiator
\* main.py:435: clarity_result.get(...) on a value that is not a dict raises
\* AttributeError, which lands in the handler of main.py:614.
ClarityResultNotDict ==
    /\ pc = "clarity_decision"
    /\ ~clarity_result.isdict
    /\ OnException
    /\ UNCHANGED <<ranking, compaction, aside, current_messages,
                   stored, title, conversation, is_first_message, calls,
                   clarity_result, title_task, stages>>

\* main.py:435-476: insufficient.  The clarification turn is appended and
\* saved, then clarification_needed is yielded.
ClarificationNeeded ==
    /\ pc = "clarity_decision"
    /\ clarity_result.isdict
    /\ ~sufficient(clarity_result)
    /\ conversation' = Append(conversation, ClarificationMsg)
    /\ \/ /\ stored' = save_conversation(conversation')
          /\ events' = Append(events,
                 [type |-> "clarification_needed",
                  questions |-> Len(processed_questions(clarity_result))])
          /\ pc' = "halt_complete"
       \/ /\ OnException
          /\ UNCHANGED stored
    /\ UNCHANGED <<ranking, compaction, aside, current_messages,
                   title, is_first_message, calls, clarity_result, title_task, stages>>

FinalCheck_mut ==
    /\ pc = "clarity_decision"
    /\ clarity_result.isdict
    /\ sufficient(clarity_result)
    /\ ~is_final_check(conversation)
    /\ conversation' = Append(SubSeq(conversation, 1, Len(conversation) - 1),
                              FinalMsg)
    /\ \/ /\ stored' = save_conversation(conversation')
          /\ events' = Append(events,
                 [type |-> "clarification_needed", questions |-> 1])
          /\ pc' = "halt_complete"
       \/ /\ OnException
          /\ UNCHANGED stored
    /\ UNCHANGED <<ranking, compaction, aside, current_messages,
                   title, is_first_message, calls, clarity_result, title_task, stages>>

\* main.py:480-509: sufficient, but the last assistant turn is not the final
\* check: the final-check turn is appended and saved, then
\* clarification_needed is yielded with its single question.
FinalCheck ==
    /\ pc = "clarity_decision"
    /\ clarity_result.isdict
    /\ sufficient(clarity_result)
    /\ ~is_final_check(conversation)
    /\ conversation' = Append(conversation, FinalMsg)
    /\ \/ /\ stored' = save_conversation(conversation')
          /\ events' = Append(events,
                 [type |-> "clarification_needed", questions |-> 1])
          /\ pc' = "halt_complete"
       \/ /\ OnException
          /\ UNCHANGED stored
    /\ UNCHANGED <<ranking, compaction, aside, current_messages,
                   title, is_first_message, calls, clarity_result, title_task, stages>>

HaltComplete_mut ==
    /\ pc = "halt_complete"
    /\ events' = Append(events, Event("stage0_start"))
    /\ pc' = "check_search_necessity"
    /\ UNCHANGED <<ranking, compaction, aside, current_messages,
                   stored, title, conversation, is_first_message, calls,
                   clarity_result, title_task, stages>>

\* main.py:477-478 and 510-511: complete, then return.
HaltComplete ==
    /\ pc = "halt_complete"
    /\ events' = Append(events, Event("complete"))
    /\ pc' = "done"
    /\ UNCHANGED <<ranking, compaction, aside, current_messages,
                   stored, title, conversation, is_first_message, calls,
                   clarity_result, title_task, stages>>

ClarificationComplete_mut ==
    /\ pc = "clarity_decision"
    /\ clarity_result.isdict
    /\ sufficient(clarity_result)
    /\ events' = Append(events, Event("clarification_complete"))
    /\ pc' = "stage0_start"
    /\ UNCHANGED <<ranking, compaction, aside, current_messages,
                   stored, title, conversation, is_first_message, calls,
                   clarity_result, title_task, stages>>

\* main.py:513-515: sufficient and the final check was the last assistant
\* turn: clarification_complete, on to stage 0.
ClarificationComplete ==
    /\ pc = "clarity_decision"
    /\ clarity_result.isdict
    /\ sufficient(clarity_result)
    /\ is_final_check(conversation)
    /\ events' = Append(events, Event("clarification_complete"))
    /\ pc' = "stage0_start"
    /\ UNCHANGED <<ranking, compaction, aside, current_messages,
                   stored, title, conversation, is_first_message, calls,
                   clarity_result, title_task, stages>>

\* ----------------------------------------------------------------- stage 0
\* main.py:519
Stage0Start ==
    /\ pc = "stage0_start"
    /\ events' = Append(events, Event("stage0_start"))
    /\ pc' = "check_search_necessity"
    /\ UNCHANGED <<ranking, compaction, aside, current_messages,
                   stored, title, conversation, is_first_message, calls,
                   clarity_result, title_task, stages>>

\* what the gate model can come back with: None, or a content
GateResponses == {"none", "YES", " yes ", "NO"}

\* council.py:46: response.get('content', '').strip().upper()
answer(response) ==
    IF response = " yes " THEN "YES" ELSE response

check_search_necessity_mut(response) == answer(response) # "NO"

\* council.py:40-47: no response is NO; otherwise YES iff the stripped,
\* upper-cased content is exactly YES.
check_search_necessity(response) ==
    IF response = "none" THEN FALSE
    ELSE answer(response) = "YES"

\* main.py:529-547 with council.py:12-47: the gate call; without a search
\* stage0_complete follows at once.
CheckSearchNecessity ==
    /\ pc = "check_search_necessity"
    /\ \/ \E response \in GateResponses :
             /\ calls' = Append(calls, [Call("gate")
                                          EXCEPT !.result = answer(response)])
             /\ IF check_search_necessity(response)
                THEN /\ pc' = "stage0_web_search"
                     /\ UNCHANGED events
                ELSE /\ pc' = "stage1_start"
                     /\ events' = Append(events, Event("stage0_complete"))
       \/ /\ OnException
          /\ calls' = Append(calls, [Call("gate")
                                       EXCEPT !.result = "raised"])
    /\ UNCHANGED <<ranking, compaction, aside, current_messages,
                   stored, title, conversation, is_first_message,
                   clarity_result, title_task, stages>>

\* council.py:96-119: the research call and its result object
stage0_web_search(response) ==
    IF response = "none"
    THEN [searched |-> FALSE, response |-> "none"]
    ELSE [searched |-> TRUE, response |-> response]

\* main.py:540-547: search_context is set only for a searched, non-empty
\* result; stage0_complete follows.
Stage0WebSearch ==
    /\ pc = "stage0_web_search"
    /\ \/ /\ \E response \in {"none", "empty", "text"} :
                /\ calls' = Append(calls, [Call("search")
                                             EXCEPT !.result = response])
                /\ stage0_result' = stage0_web_search(response)
                /\ search_context' =
                      IF stage0_result'.searched /\ stage0_result'.response # "empty"
                      THEN "text" ELSE "none"
          /\ events' = Append(events, Event("stage0_complete"))
          /\ pc' = "stage1_start"
       \/ /\ OnException
          /\ calls' = Append(calls, [Call("search")
                                       EXCEPT !.result = "raised"])
          /\ UNCHANGED <<stage0_result, search_context>>
    /\ UNCHANGED <<ranking, compaction, aside, current_messages,
                   stored, title, conversation, is_first_message,
                   clarity_result, title_task, stage1_results,
                   stage2_results, stage3_result, stage4_result>>

\* ------------------------------------------------------------ stages 1 - 4
\* One call per roster entry, in roster order.
FanOutCalls(kind) ==
    [i \in 1..Len(COUNCIL_MODELS) |->
        [kind |-> kind, model |-> COUNCIL_MODELS[i], force |-> FALSE,
         result |-> "-"]]

\* The answers of one fan-out: every member either answered or did not.
FanOutResponses == [1..Len(COUNCIL_MODELS) -> {"ok", "none"}]

RECURSIVE Survivors(_, _)
\* council.py:176-182 / 262-271: walk the answers in order and keep the
\* members whose response is not None.
Survivors(responses, i) ==
    IF i > Len(COUNCIL_MODELS) THEN <<>>
    ELSE IF responses[i] = "ok"
         THEN <<COUNCIL_MODELS[i]>> \o Survivors(responses, i + 1)
         ELSE Survivors(responses, i + 1)

\* main.py:550
Stage1Start ==
    /\ pc = "stage1_start"
    /\ events' = Append(events, Event("stage1_start"))
    /\ pc' = "stage1_collect_responses"
    /\ UNCHANGED <<ranking, compaction, aside, current_messages,
                   stored, title, conversation, is_first_message, calls,
                   clarity_result, title_task, stages>>

\* main.py:552-566 with council.py:172-184
Stage1CollectResponses ==
    /\ pc = "stage1_collect_responses"
    /\ current_messages' = make_current_messages(history)
    /\ calls' = calls \o FanOutCalls("council")
    /\ \/ /\ \E responses \in FanOutResponses :
                stage1_results' = Survivors(responses, 1)
          /\ events' = Append(events, Event("stage1_complete"))
          /\ pc' = "stage2_start"
       \/ /\ OnException
          /\ UNCHANGED stage1_results
    /\ UNCHANGED <<ranking, compaction, aside,
                   stored, title, conversation, is_first_message,
                   clarity_result, title_task, stage0_result,
                   search_context, stage2_results, stage3_result,
                   stage4_result>>

Stage2Start_mut ==
    /\ pc = "stage2_start"
    /\ events' = Append(events, Event("stage3_start"))
    /\ pc' = "stage2_collect_rankings"
    /\ UNCHANGED <<ranking, compaction, aside, current_messages,
                   stored, title, conversation, is_first_message, calls,
                   clarity_result, title_task, stages>>

\* main.py:569
Stage2Start ==
    /\ pc = "stage2_start"
    /\ events' = Append(events, Event("stage2_start"))
    /\ pc' = "stage2_collect_rankings"
    /\ UNCHANGED <<ranking, compaction, aside, current_messages,
                   stored, title, conversation, is_first_message, calls,
                   clarity_result, title_task, stages>>

\* main.py:570-576 with council.py:256-273: the reviewers are queried
\* whatever stage1_results holds.
Stage2CollectRankings ==
    /\ pc = "stage2_collect_rankings"
    /\ calls' = calls \o FanOutCalls("reviewer")
    /\ \/ /\ \E responses \in FanOutResponses :
                stage2_results' = Survivors(responses, 1)
          /\ events' = Append(events, Event("stage2_complete"))
          /\ pc' = "stage3_start"
       \/ /\ OnException
          /\ UNCHANGED stage2_results
    /\ UNCHANGED <<ranking, compaction, aside, current_messages,
                   stored, title, conversation, is_first_message,
                   clarity_result, title_task, stage0_result,
                   search_context, stage1_results, stage3_result,
                   stage4_result>>

\* main.py:579
Stage3Start ==
    /\ pc = "stage3_start"
    /\ events' = Append(events, Event("stage3_start"))
    /\ pc' = "stage3_synthesize_final"
    /\ UNCHANGED <<ranking, compaction, aside, current_messages,
                   stored, title, conversation, is_first_message, calls,
                   clarity_result, title_task, stages>>

stage3_synthesize_final_mut(response) ==
    IF response = "none" THEN NoStage3
    ELSE [model |-> "CHAIRMAN_MODEL", response |-> "synthesis"]

\* council.py:340-353: the chairman's answer, or the fallback object when
\* the call came back with None
stage3_synthesize_final(response) ==
    IF response = "none"
    THEN [model |-> "CHAIRMAN_MODEL",
          response |-> "Error: Unable to generate final synthesis."]
    ELSE [model |-> "CHAIRMAN_MODEL", response |-> "synthesis"]

Stage3SynthesizeFinal_mut ==
    /\ pc = "stage3_synthesize_final"
    /\ \E response \in {"none", "ok"} :
          /\ calls' =
                IF response = "none"
                THEN calls \o <<[Call("chairman") EXCEPT !.result = "none"],
                                [Call("chairman") EXCEPT !.result = "none"]>>
                ELSE Append(calls,
                            [Call("chairman") EXCEPT !.result = response])
          /\ stage3_result' = stage3_synthesize_final(response)
    /\ events' = Append(events, Event("stage3_complete"))
    /\ pc' = "stage4_start"
    /\ UNCHANGED <<ranking, compaction, aside, current_messages,
                   stored, title, conversation, is_first_message,
                   clarity_result, title_task, stage0_result,
                   search_context, stage1_results, stage2_results,
                   stage4_result>>

\* main.py:580-586
Stage3SynthesizeFinal ==
    /\ pc = "stage3_synthesize_final"
    /\ \/ /\ \E response \in {"none", "ok"} :
                /\ calls' = Append(calls, [Call("chairman")
                                             EXCEPT !.result = response])
                /\ stage3_result' = stage3_synthesize_final(response)
          /\ events' = Append(events, Event("stage3_complete"))
          /\ pc' = "stage4_start"
       \/ /\ OnException
          /\ calls' = Append(calls, [Call("chairman")
                                       EXCEPT !.result = "raised"])
          /\ UNCHANGED stage3_result
    /\ UNCHANGED <<ranking, compaction, aside, current_messages,
                   stored, title, conversation, is_first_message,
                   clarity_result, title_task, stage0_result,
                   search_context, stage1_results, stage2_results,
                   stage4_result>>

\* main.py:589
Stage4Start ==
    /\ pc = "stage4_start"
    /\ events' = Append(events, Event("stage4_start"))
    /\ pc' = "stage4_generate_infographic"
    /\ UNCHANGED <<ranking, compaction, aside, current_messages,
                   stored, title, conversation, is_first_message, calls,
                   clarity_result, title_task, stages>>

stage4_generate_infographic_mut(response) ==
    IF response = "none"
    THEN [generated |-> FALSE, image_data |-> "none",
          error |-> "Failed to generate infographic"]
    ELSE [generated |-> TRUE,
          image_data |-> IF response = "image" THEN "data" ELSE "none",
          error |-> "-"]

\* council.py:593-629: no response, a response without an image payload, or
\* a response with one; generated is "image_data is not None", and only
\* the object for a failed call has an error field.
stage4_generate_infographic(response) ==
    IF response = "none"
    THEN [generated |-> FALSE, image_data |-> "none",
          error |-> "Failed to generate infographic"]
    ELSE LET image_data == IF response = "image" THEN "data" ELSE "none"
         IN  [generated |-> image_data # "none", image_data |-> image_data,
              error |-> "-"]

\* main.py:590-593
Stage4GenerateInfographic ==
    /\ pc = "stage4_generate_infographic"
    /\ calls' = Append(calls, Call("image"))
    /\ \/ /\ \E response \in {"none", "no_image", "image"} :
                stage4_result' = stage4_generate_infographic(response)
          /\ events' = Append(events, Event("stage4_complete"))
          /\ pc' = "title"
       \/ /\ OnException
          /\ UNCHANGED stage4_result
    /\ UNCHANGED <<ranking, compaction, aside, current_messages,
                   stored, title, conversation, is_first_message,
                   clarity_result, title_task, stage0_result,
                   search_context, stage1_results, stage2_results,
                   stage3_result>>

\* -------------------------------------------------------------- persistence
\* main.py:595-599: a started title task is awaited, its title stored and
\* title_complete yielded; without a task nothing happens here.
JoinTitle ==
    /\ pc = "title"
    /\ \/ /\ title_task = "none"
          /\ pc' = "add_assistant_message"
          /\ UNCHANGED <<title, events>>
       \/ /\ title_task = "done"
          /\ title' = "generated"
          /\ events' = Append(events, Event("title_complete"))
          /\ pc' = "add_assistant_message"
       \/ /\ title_task = "done"
          /\ OnException
          /\ UNCHANGED title
    /\ UNCHANGED <<ranking, compaction, aside, current_messages,
                   stored, conversation, is_first_message, calls,
                   clarity_result, title_task, stages>>

AddAssistantMessage_mut ==
    /\ pc = "add_assistant_message"
    /\ stored' = add_assistant_message(stored)
    /\ \/ /\ events' = Append(events, Event("complete"))
          /\ pc' = "done"
       \/ OnException
    /\ UNCHANGED <<ranking, compaction, aside, current_messages,
                   title, conversation, is_first_message, calls,
                   clarity_result, title_task, stages>>

\* main.py:601-612: the assistant turn is appended to what storage holds,
\* then complete is yielded.
AddAssistantMessage ==
    /\ pc = "add_assistant_message"
    /\ \/ /\ stored' = add_assistant_message(stored)
          /\ events' = Append(events, Event("complete"))
          /\ pc' = "done"
       \/ /\ OnException
          /\ UNCHANGED stored
    /\ UNCHANGED <<ranking, compaction, aside, current_messages,
                   title, conversation, is_first_message, calls,
                   clarity_result, title_task, stages>>

\* ------------------------------------------------------------ specification
GeneratorStep ==
    \/ ProcessAttachments
    \/ RagRetrieval
    \/ AddUserMessage
    \/ ClarificationStart
    \/ AssessClarity
    \/ ClarityResultNotDict
    \/ ClarificationNeeded
    \/ FinalCheck
    \/ HaltComplete
    \/ ClarificationComplete
    \/ Stage0Start
    \/ CheckSearchNecessity
    \/ Stage0WebSearch
    \/ Stage1Start
    \/ Stage1CollectResponses
    \/ Stage2Start
    \/ Stage2CollectRankings
    \/ Stage3Start
    \/ Stage3SynthesizeFinal
    \/ Stage4Start
    \/ Stage4GenerateInfographic
    \/ JoinTitle
    \/ AddAssistantMessage

Next ==
    \/ send_message_stream
    \/ GeneratorStep
    \/ TitleTaskFinish

Spec == Init /\ [][Next]_vars

\* ========================================== the first turn that proceeds
\* The requests of Spec over the shortest conversation in which a turn
\* reaches the stages: two forced clarification rounds, the final check,
\* and the turn that proceeds.

\* user turns of that conversation
PipelineTurns == 4

PipelineNext ==
    \/ StartRequest(PipelineTurns)
    \/ GeneratorStep
    \/ TitleTaskFinish

PipelineSpec == Init /\ [][PipelineNext]_vars

\* ============================================= the negotiation, many turns
\* The same requests over a longer conversation, with what has no bearing
\* on the negotiator held to one outcome: nothing raises, no retrieval and
\* no search is asked for, and the stage calls all come back empty.

\* user turns of one conversation in the long negotiation
DeepTurns == 8

Quiet ==
    /\ \A i \in 1..Len(events) : events[i].type # "error"
    /\ \A i \in 1..Len(calls) : calls[i].kind \notin {"retrieval", "search"}
    /\ stage1_results = <<>>
    /\ stage2_results = <<>>
    /\ stage3_result \in {NoStage3, stage3_synthesize_final("none")}
    /\ stage4_result \in {NoStage4, stage4_generate_infographic("none")}

\* Every step of a request but the one that only raises (a clarifier
\* answer that is no object) and the search that is never asked for, each
\* kept to its quiet outcomes.
NegotiationNext ==
    \/ StartRequest(DeepTurns) /\ Quiet'
    \/ ProcessAttachments /\ Quiet'
    \/ RagRetrieval /\ Quiet'
    \/ AddUserMessage /\ Quiet'
    \/ ClarificationStart /\ Quiet'
    \/ AssessClarity /\ Quiet'
    \/ ClarificationNeeded /\ Quiet'
    \/ FinalCheck /\ Quiet'
    \/ HaltComplete /\ Quiet'
    \/ ClarificationComplete /\ Quiet'
    \/ Stage0Start /\ Quiet'
    \/ CheckSearchNecessity /\ Quiet'
    \/ Stage1Start /\ Quiet'
    \/ Stage1CollectResponses /\ Quiet'
    \/ Stage2Start /\ Quiet'
    \/ Stage2CollectRankings /\ Quiet'
    \/ Stage3Start /\ Quiet'
    \/ Stage3SynthesizeFinal /\ Quiet'
    \/ Stage4Start /\ Quiet'
    \/ Stage4GenerateInfographic /\ Quiet'
    \/ JoinTitle /\ Quiet'
    \/ AddAssistantMessage /\ Quiet'
    \/ TitleTaskFinish /\ Quiet'

NegotiationSpec == Init /\ [][NegotiationNext]_vars

\* ================================================== fan-out, call by call
\* The two fan-outs of one pipeline run with every member call as a step of
\* its own: dispatch, the calls resolving in any order, the join.

\* council members of the fan-out model
NumMembers == 3
Members == 1..NumMembers

\* response texts a council member can come back with
ResponseTexts == {"t1", "t2"}

Queries == {"q1", "q2"}

\* chr(65 + i)
Letters == <<"A", "B", "C", "D", "E", "F", "G", "H", "I", "J", "K", "L", "M",
             "N", "O", "P", "Q", "R", "S", "T", "U", "V", "W", "X", "Y", "Z">>

\* The turn stands right before the Stage-1 fan-out: the negotiator has
\* let it through and stage 0 has finished without a search.
FanOutInit ==
    /\ stored = <<UserMsg, FinalMsg, UserMsg>>
    /\ title = "New Conversation"
    /\ conversation = <<UserMsg, FinalMsg, UserMsg>>
    /\ is_first_message = FALSE
    /\ pc = "stage1_collect_responses"
    /\ events = <<Event("clarification_start"), Event("clarification_complete"),
                  Event("stage0_start"), Event("stage0_complete"),
                  Event("stage1_start")>>
    /\ calls = <<[kind |-> "assess", model |-> 0, force |-> TRUE,
                  result |-> "failed"],
                 [Call("gate") EXCEPT !.result = "NO"]>>
    /\ clarity_result = FailOpenResult
    /\ title_task = "none"
    /\ stage0_result = Stage0Default
    /\ search_context = "none"
    /\ stage1_results = <<>>
    /\ stage2_results = <<>>
    /\ stage3_result = NoStage3
    /\ stage4_result = NoStage4
    /\ user_query \in Queries
    /\ label_to_model = <<>>
    /\ ranking_prompt = "none"
    /\ ranking_text = <<>>
    /\ parsed_ranking = <<>>
    /\ aggregate_rankings = <<>>
    /\ raw_response = <<>>
    /\ max_chars = 0
    /\ optimized = <<>>
    /\ current_messages = make_current_messages(history)
    /\ metadata = NoMetadata
    /\ other_request = NoRequest
    /\ query_text = <<>>
    /\ available_repos = <<>>
    /\ parse_result = NoParse

\* query_models_parallel, dispatch: one call per roster entry, in roster
\* order, all in flight at once
query_models_parallel(kind) ==
    [i \in Members |->
        [kind |-> kind, model |-> i, force |-> FALSE, result |-> "pending"]]

\* position in calls of the call of this kind to this member
CallOf(kind, m) ==
    CHOOSE i \in 1..Len(calls) : calls[i].kind = kind /\ calls[i].model = m

\* the mapping model -> response-or-None the fan-out hands back
responses(kind) == [m \in Members |-> calls[CallOf(kind, m)].result]

\* the join of query_models_parallel: every dispatched call has resolved
gathered(kind) == \A m \in Members : responses(kind)[m] # "pending"

gathered_mut(kind) == \E m \in Members : responses(kind)[m] # "pending"

\* query_model: one member call comes back with a response or with None
\* (failure and timeout alike); the other calls are left as they are.
QueryModel ==
    /\ pc \in {"stage1_gather", "stage2_gather"}
    /\ \E i \in 1..Len(calls) :
          /\ calls[i].result = "pending"
          /\ \E r \in IF calls[i].kind = "council"
                      THEN ResponseTexts \cup {"none"}
                      ELSE {"ok", "none"} :
                calls' = [calls EXCEPT ![i].result = r]
    /\ UNCHANGED <<ranking, compaction, aside, current_messages,
                   stored, title, conversation, is_first_message, pc,
                   events, clarity_result, title_task, stages>>

\* council.py:173: the Stage-1 fan-out is dispatched
Stage1Dispatch ==
    /\ pc = "stage1_collect_responses"
    /\ calls' = calls \o query_models_parallel("council")
    /\ pc' = "stage1_gather"
    /\ UNCHANGED <<ranking, compaction, aside, current_messages,
                   stored, title, conversation, is_first_message,
                   events, clarity_result, title_task, stages>>

RECURSIVE stage1_collect_responses_mut(_, _)
stage1_collect_responses_mut(resp, m) ==
    IF m > NumMembers \/ resp[m] = "none" THEN <<>>
    ELSE <<[model |-> m, response |-> resp[m]]>>
             \o stage1_collect_responses_mut(resp, m + 1)

RECURSIVE stage1_collect_responses(_, _)
\* council.py:176-182: walk the mapping in its order and keep a
\* {model, response} entry for every response that is not None
stage1_collect_responses(resp, m) ==
    IF m > NumMembers THEN <<>>
    ELSE IF resp[m] # "none"
         THEN <<[model |-> m, response |-> resp[m]]>>
                  \o stage1_collect_responses(resp, m + 1)
         ELSE stage1_collect_responses(resp, m + 1)

Stage1Gather_mut ==
    /\ pc = "stage1_gather"
    /\ gathered_mut("council")
    /\ stage1_results' = stage1_collect_responses(responses("council"), 1)
    /\ events' = Append(Append(events, Event("stage1_complete")),
                        Event("stage2_start"))
    /\ pc' = "stage2_collect_rankings"
    /\ UNCHANGED <<ranking, compaction, aside, current_messages,
                   stored, title, conversation, is_first_message,
                   calls, clarity_result, title_task, stage0_result,
                   search_context, stage2_results, stage3_result,
                   stage4_result>>

\* council.py:173-184 with main.py:566-569: the awaited fan-out returns,
\* the results are formatted, stage1_complete and stage2_start go out.
Stage1Gather ==
    /\ pc = "stage1_gather"
    /\ gathered("council")
    /\ stage1_results' = stage1_collect_responses(responses("council"), 1)
    /\ events' = Append(Append(events, Event("stage1_complete")),
                        Event("stage2_start"))
    /\ pc' = "stage2_collect_rankings"
    /\ UNCHANGED <<ranking, compaction, aside, current_messages,
                   stored, title, conversation, is_first_message,
                   calls, clarity_result, title_task, stage0_result,
                   search_context, stage2_results, stage3_result,
                   stage4_result>>

labels_mut(results) == [i \in 1..Len(results) |-> Letters[1]]

\* council.py:202: labels = [chr(65 + i) for i in range(len(stage1_results))]
labels(results) == [i \in 1..Len(results) |-> Letters[i]]

\* council.py:205-208: "Response X" -> model of the X-th result; a later
\* entry with the same key replaces an earlier one
make_label_to_model(results) ==
    LET keys == {<<"Response", labels(results)[i]>> : i \in 1..Len(results)}
    IN  [k \in keys |->
            results[CHOOSE i \in 1..Len(results) :
                        /\ <<"Response", labels(results)[i]>> = k
                        /\ \A j \in (i + 1)..Len(results) :
                              <<"Response", labels(results)[j]>> # k].model]

make_ranking_prompt_mut(query, results) ==
    [question |-> query,
     responses_text |->
        [i \in 1..Len(results) |->
            [label |-> <<"Response", labels(results)[i]>>,
             text |-> results[i].response,
             model |-> results[i].model]]]

\* council.py:211-254: the question and, per result, its label and its
\* response text
make_ranking_prompt(query, results) ==
    [question |-> query,
     responses_text |->
        [i \in 1..Len(results) |->
            [label |-> <<"Response", labels(results)[i]>>,
             text |-> results[i].response]]]

\* council.py:201-259: labels, mapping and prompt are built, then the
\* reviewer fan-out is dispatched with that prompt
Stage2Dispatch ==
    /\ pc = "stage2_collect_rankings"
    /\ label_to_model' = make_label_to_model(stage1_results)
    /\ ranking_prompt' = make_ranking_prompt(user_query, stage1_results)
    /\ calls' = calls \o query_models_parallel("reviewer")
    /\ pc' = "stage2_gather"
    /\ UNCHANGED <<aside, current_messages, user_query, ranking_text, parsed_ranking,
                   aggregate_rankings, compaction, stored, title,
                   conversation, is_first_message, events, clarity_result,
                   title_task, stages>>

RECURSIVE stage2_collect_rankings(_, _)
\* council.py:262-271: the reviewers whose response is not None
stage2_collect_rankings(resp, m) ==
    IF m > NumMembers THEN <<>>
    ELSE IF resp[m] # "none"
         THEN <<m>> \o stage2_collect_rankings(resp, m + 1)
         ELSE stage2_collect_rankings(resp, m + 1)

\* council.py:259-273 with main.py:570-576: the awaited reviewer fan-out
\* returns, the results are formatted, stage2_complete goes out.
Stage2Gather ==
    /\ pc = "stage2_gather"
    /\ gathered("reviewer")
    /\ stage2_results' = stage2_collect_rankings(responses("reviewer"), 1)
    /\ events' = Append(events, Event("stage2_complete"))
    /\ pc' = "stage3_start"
    /\ UNCHANGED <<ranking, compaction, aside, current_messages,
                   stored, title, conversation, is_first_message,
                   calls, clarity_result, title_task, stage0_result,
                   search_context, stage1_results, stage3_result,
                   stage4_result>>

FanOutNext ==
    \/ Stage1Dispatch
    \/ QueryModel
    \/ Stage1Gather
    \/ Stage2Dispatch
    \/ Stage2Gather
    \/ Stage3Start
    \/ Stage3SynthesizeFinal

FanOutSpec == FanOutInit /\ [][FanOutNext]_vars

\* ========================================================= ranking parser
\* A reviewer text is a sequence of tokens: "MARK" is the literal
\* FINAL RANKING:, "NUM" a run of digits followed by a period, "A" and "B"
\* the label texts Response A and Response B, and "w" any other text.
\* White space between two tokens is not a token.

\* tokens of one reviewer text
MaxLen == 4

LabelTokens == {"A", "B"}

Tokens == {"MARK", "NUM", "w"} \cup LabelTokens

Texts == UNION {[1..n -> Tokens] : n \in 0..MaxLen}

\* the texts Response X that the pattern Response [A-Z] matches
LabelTexts == {Letters[i] : i \in 1..Len(Letters)}

\* re.findall(r'Response [A-Z]', text)
find_labels(text) == SelectSeq(text, LAMBDA t : t \in LabelTexts)

RECURSIVE find_numbered(_, _)
\* re.findall(r'\d+\.\s*Response [A-Z]', text) and, per match, the
\* Response X inside it: a NUM with a label right behind it
find_numbered(text, i) ==
    IF i >= Len(text) THEN <<>>
    ELSE IF text[i] = "NUM" /\ text[i + 1] \in LabelTexts
         THEN <<text[i + 1]>> \o find_numbered(text, i + 2)
         ELSE find_numbered(text, i + 1)

\* "FINAL RANKING:" in ranking_text
has_marker(text) == \E i \in 1..Len(text) : text[i] = "MARK"

\* position of the first marker of a text that has one
first_marker(text) ==
    CHOOSE i \in 1..Len(text) :
        text[i] = "MARK" /\ \A j \in 1..(i - 1) : text[j] # "MARK"

\* ranking_text.split("FINAL RANKING:")[1]: what lies between the first
\* marker and the next one, or the end of the text
ranking_section(text) ==
    LET rest == SubSeq(text, first_marker(text) + 1, Len(text))
    IN  IF has_marker(rest)
        THEN SubSeq(rest, 1, first_marker(rest) - 1)
        ELSE rest

parse_ranking_from_text_mut(text) ==
    IF has_marker(text)
    THEN LET numbered == find_numbered(ranking_section(text), 1)
         IN  IF numbered # <<>> THEN numbered
             ELSE find_labels(ranking_section(text))
    ELSE IF Len(find_labels(text)) > 1
         THEN SubSeq(find_labels(text), 1, 1)
         ELSE find_labels(text)

\* council.py:368-387
parse_ranking_from_text(text) ==
    IF has_marker(text)
    THEN LET numbered == find_numbered(ranking_section(text), 1)
         IN  IF numbered # <<>> THEN numbered
             ELSE find_labels(ranking_section(text))
    ELSE find_labels(text)

RECURSIVE render(_, _)
\* a label list written out as text, one label after the other with sep
\* between two of them
render(parsed, sep) ==
    IF Len(parsed) = 0 THEN <<>>
    ELSE IF Len(parsed) = 1 THEN parsed
    ELSE <<Head(parsed)>> \o sep \o render(Tail(parsed), sep)

\* A reviewer text is about to be parsed.
ParserInit ==
    /\ stored = <<>>
    /\ title = "New Conversation"
    /\ conversation = <<>>
    /\ is_first_message = FALSE
    /\ pc = "parse_ranking_from_text"
    /\ events = <<>>
    /\ calls = <<>>
    /\ clarity_result = NoResult
    /\ title_task = "none"
    /\ stage0_result = Stage0Default
    /\ search_context = "none"
    /\ stage1_results = <<>>
    /\ stage2_results = <<>>
    /\ stage3_result = NoStage3
    /\ stage4_result = NoStage4
    /\ user_query = "none"
    /\ label_to_model = <<>>
    /\ ranking_prompt = "none"
    /\ ranking_text \in Texts
    /\ parsed_ranking = <<>>
    /\ aggregate_rankings = <<>>
    /\ raw_response = <<>>
    /\ max_chars = 0
    /\ optimized = <<>>
    /\ current_messages = <<>>
    /\ metadata = NoMetadata
    /\ other_request = NoRequest
    /\ query_text = <<>>
    /\ available_repos = <<>>
    /\ parse_result = NoParse

\* council.py:265-266: parsed = parse_ranking_from_text(full_text)
ParseRanking ==
    /\ pc \in {"parse_ranking_from_text", "canonical"}
    /\ parsed_ranking' = parse_ranking_from_text(ranking_text)
    /\ pc' = IF pc = "canonical" THEN "reparsed" ELSE "parsed"
    /\ UNCHANGED <<aside, current_messages, user_query, label_to_model, ranking_prompt, ranking_text,
                   aggregate_rankings, compaction, stored, title, conversation, is_first_message, events,
                   calls, clarity_result, title_task, stages>>

\* The parsed list is written out as a text of its own, the labels in
\* order, separated by white space or by other text such as a comma.
Canonicalize ==
    /\ pc = "parsed"
    /\ \E sep \in {<<>>, <<"w">>} :
          ranking_text' = render(parsed_ranking, sep)
    /\ pc' = "canonical"
    /\ UNCHANGED <<aside, current_messages, user_query, label_to_model, ranking_prompt,
                   parsed_ranking, aggregate_rankings, compaction, stored, title, conversation,
                   is_first_message, events, calls, clarity_result,
                   title_task, stages>>

ParserNext ==
    \/ ParseRanking
    \/ Canonicalize

ParserSpec == ParserInit /\ [][ParserNext]_vars

\* ===================================================== stage-2 aggregate
\* The format step of stage 2 and the aggregate of its rankings. The
\* reviewers answer in the demanded format, FINAL RANKING: followed by a
\* numbered list, and are free in the labels they list: any of the first
\* three letters, in any order, repeated or left out.

\* labels in one reviewer's list
MaxRanked == 3

\* council members asked for a review
Reviewers == <<1, 2>>

RankLabels == {"A", "B", "C"}

LabelLists == UNION {[1..n -> RankLabels] : n \in 0..MaxRanked}

RECURSIVE numbered_list(_)
\* "1. Response X\n2. Response Y ..."
numbered_list(list) ==
    IF list = <<>> THEN <<>>
    ELSE <<"NUM", Head(list)>> \o numbered_list(Tail(list))

\* council.py:238-251: the format the ranking prompt demands
ReviewTexts == {<<"MARK">> \o numbered_list(list) : list \in LabelLists}

\* The reviews of a turn are about to be formatted: between one and
\* NumMembers council members have answered in stage 1, the labels are
\* given out and the reviewer fan-out has returned.
RankingInit ==
    /\ stored = <<UserMsg, FinalMsg, UserMsg>>
    /\ title = "New Conversation"
    /\ conversation = <<UserMsg, FinalMsg, UserMsg>>
    /\ is_first_message = FALSE
    /\ pc = "stage2_format"
    /\ events = <<Event("clarification_start"), Event("clarification_complete"),
                  Event("stage0_start"), Event("stage0_complete"),
                  Event("stage1_start"), Event("stage1_complete"),
                  Event("stage2_start")>>
    /\ calls = <<[kind |-> "assess", model |-> 0, force |-> TRUE,
                  result |-> "failed"],
                 [Call("gate") EXCEPT !.result = "NO"]>>
    /\ clarity_result = FailOpenResult
    /\ title_task = "none"
    /\ stage0_result = Stage0Default
    /\ search_context = "none"
    /\ \E n \in 1..NumMembers :
          stage1_results = [i \in 1..n |-> [model |-> i, response |-> "t1"]]
    /\ stage2_results = <<>>
    /\ stage3_result = NoStage3
    /\ stage4_result = NoStage4
    /\ user_query = "q1"
    /\ label_to_model = make_label_to_model(stage1_results)
    /\ ranking_prompt = make_ranking_prompt(user_query, stage1_results)
    /\ ranking_text = <<>>
    /\ parsed_ranking = <<>>
    /\ aggregate_rankings = <<>>
    /\ raw_response = <<>>
    /\ max_chars = 0
    /\ optimized = <<>>
    /\ current_messages = make_current_messages(history)
    /\ metadata = NoMetadata
    /\ other_request = NoRequest
    /\ query_text = <<>>
    /\ available_repos = <<>>
    /\ parse_result = NoParse

\* council.py:261-273: one result per reviewer whose response is not None,
\* in roster order, with the full text and what the parser makes of it
Stage2Format ==
    /\ pc = "stage2_format"
    /\ \E back \in SUBSET {Reviewers[i] : i \in 1..Len(Reviewers)} :
          LET came == SelectSeq(Reviewers, LAMBDA r : r \in back)
          IN  \E full_text \in [1..Len(came) -> ReviewTexts] :
                 stage2_results' =
                    [i \in 1..Len(came) |->
                        [model |-> came[i],
                         ranking |-> full_text[i],
                         parsed_ranking |->
                            parse_ranking_from_text(full_text[i])]]
    /\ pc' = "calculate_aggregate_rankings"
    /\ UNCHANGED <<ranking, compaction, aside, current_messages, stored, title, conversation,
                   is_first_message, events, calls, clarity_result,
                   title_task, stage0_result, search_context,
                   stage1_results, stage3_result, stage4_result>>

recorded_mut(parsed, mapping) ==
    LET at == SelectSeq([i \in 1..Len(parsed) |-> i],
                        LAMBDA i : <<"Response", parsed[i]>> \in DOMAIN mapping)
    IN  [k \in 1..Len(at) |->
            [model |-> mapping[<<"Response", parsed[at[k]]>>],
             position |-> at[k] - 1]]

\* council.py:415-418: per label of one parsed ranking that label_to_model
\* knows, its model and its 1-based position
recorded(parsed, mapping) ==
    LET at == SelectSeq([i \in 1..Len(parsed) |-> i],
                        LAMBDA i : <<"Response", parsed[i]>> \in DOMAIN mapping)
    IN  [k \in 1..Len(at) |->
            [model |-> mapping[<<"Response", parsed[at[k]]>>],
             position |-> at[k]]]

RECURSIVE all_recorded(_, _, _)
\* council.py:409-418: the rankings in order, each text parsed again
all_recorded(results, mapping, r) ==
    IF r > Len(results) THEN <<>>
    ELSE recorded(parse_ranking_from_text(results[r].ranking), mapping)
             \o all_recorded(results, mapping, r + 1)

insertion_order_mut(rec) ==
    LET present == {rec[i].model : i \in 1..Len(rec)}
    IN  SelectSeq([m \in 1..NumMembers + 1 |-> m], LAMBDA m : m \in present)

RECURSIVE insertion_order(_)
\* council.py:407: the keys of model_positions, a dict: in the order in
\* which they were first written
insertion_order(rec) ==
    IF rec = <<>> THEN <<>>
    ELSE LET before == insertion_order(SubSeq(rec, 1, Len(rec) - 1))
             m == rec[Len(rec)].model
         IN  IF \E i \in 1..Len(before) : before[i] = m
             THEN before
             ELSE Append(before, m)

\* council.py:418: model_positions[model_name], the positions in the order
\* in which they were appended
positions_of(rec, m) ==
    LET mine == SelectSeq(rec, LAMBDA e : e.model = m)
    IN  [k \in 1..Len(mine) |-> mine[k].position]

RECURSIVE sum(_)
sum(positions) ==
    IF positions = <<>> THEN 0
    ELSE Head(positions) + sum(Tail(positions))

\* round(total / count, 2), in hundredths: the nearest hundredth, the even
\* one when total / count lies exactly between two
round2(total, count) ==
    LET q == (100 * total) \div count
        r == (100 * total) % count
    IN  IF 2 * r < count THEN q
        ELSE IF 2 * r > count THEN q + 1
        ELSE IF q % 2 = 0 THEN q ELSE q + 1

\* council.py:421-429: one entry per key of model_positions; average_rank
\* is held in hundredths
aggregate_entry(rec, m) ==
    [model |-> m,
     average_rank |-> round2(sum(positions_of(rec, m)),
                             Len(positions_of(rec, m))),
     rankings_count |-> Len(positions_of(rec, m))]

insert_sorted_mut(e, sorted) ==
    LET k == Cardinality({i \in 1..Len(sorted) :
                            sorted[i].average_rank < e.average_rank})
    IN  SubSeq(sorted, 1, k) \o <<e>> \o SubSeq(sorted, k + 1, Len(sorted))

\* list.sort is stable: an entry goes behind every entry that came before
\* it and is not ranked worse
insert_sorted(e, sorted) ==
    LET k == Cardinality({i \in 1..Len(sorted) :
                            sorted[i].average_rank <= e.average_rank})
    IN  SubSeq(sorted, 1, k) \o <<e>> \o SubSeq(sorted, k + 1, Len(sorted))

RECURSIVE sort_by_average_rank(_)
\* council.py:432: aggregate.sort(key=lambda x: x['average_rank'])
sort_by_average_rank(aggregate) ==
    IF aggregate = <<>> THEN <<>>
    ELSE insert_sorted(aggregate[Len(aggregate)],
                       sort_by_average_rank(
                           SubSeq(aggregate, 1, Len(aggregate) - 1)))

\* council.py:390-434
calculate_aggregate_rankings(results, mapping) ==
    LET rec == all_recorded(results, mapping, 1)
        keys == insertion_order(rec)
    IN  sort_by_average_rank(
            [k \in 1..Len(keys) |-> aggregate_entry(rec, keys[k])])

\* main.py:573-576: the aggregate is computed and goes out with
\* stage2_complete
Aggregate ==
    /\ pc = "calculate_aggregate_rankings"
    /\ aggregate_rankings' =
          calculate_aggregate_rankings(stage2_results, label_to_model)
    /\ events' = Append(events, Event("stage2_complete"))
    /\ pc' = "stage3_start"
    /\ UNCHANGED <<aside, current_messages, user_query, label_to_model, ranking_prompt, ranking_text,
                   parsed_ranking, compaction, stored, title, conversation,
                   is_first_message, calls, clarity_result, title_task,
                   stages>>

RankingNext ==
    \/ Stage2Format
    \/ Aggregate

RankingSpec == RankingInit /\ [][RankingNext]_vars

\* ====================================================== context compactor
\* compress_text and truncate_with_sentence_boundary on texts written as
\* sequences of characters: a capital letter, a small letter, a blank, a
\* period and an exclamation mark.

\* characters of a text to compact
MaxText == 5

Chars == {"A", "a", " ", ".", "!"}

\* [.!?]
SentenceEnd == {".", "!"}

CompactTexts == UNION {[1..n -> Chars] : n \in 0..MaxText}

\* text[::-1]
reversed(s) == [i \in 1..Len(s) |-> s[Len(s) + 1 - i]]

\* prompt_optimizer.py:153: where r'[.!?]\s+(?=[A-Z])' matches in s, as
\* 1-based start positions: a sentence end, white space, a capital letter
boundary_matches(s) ==
    {i \in 1..Len(s) :
        /\ s[i] \in SentenceEnd
        /\ \E j \in (i + 1)..(Len(s) - 1) :
              /\ \A k \in (i + 1)..j : s[k] = " "
              /\ s[j + 1] = "A"}

\* truncated.rfind('.'), 0-based, -1 when there is no period
rfind_period(s) ==
    LET at == {i \in 1..Len(s) : s[i] = "."}
    IN  IF at = {} THEN 0 - 1
        ELSE (CHOOSE i \in at : \A j \in at : j <= i) - 1

\* prompt_optimizer.py:129-160 with preserve_end False
truncate_with_sentence_boundary(s, ceiling) ==
    IF Len(s) <= ceiling THEN s
    ELSE LET truncated == SubSeq(s, 1, ceiling)
             matches == boundary_matches(reversed(truncated))
             last_period == rfind_period(truncated)
         IN  IF matches # {}
             THEN LET start ==
                          (CHOOSE i \in matches : \A j \in matches : i <= j) - 1
                  IN  IF start = 0 THEN <<>>
                      ELSE SubSeq(truncated, 1, ceiling - start)
             ELSE IF 2 * last_period > ceiling
                  THEN SubSeq(truncated, 1, last_period + 1)
                  ELSE truncated \o <<".", ".", ".">>

RECURSIVE strip(_)
\* str.strip()
strip(s) ==
    IF s = <<>> THEN s
    ELSE IF Head(s) = " " THEN strip(Tail(s))
    ELSE IF s[Len(s)] = " " THEN strip(SubSeq(s, 1, Len(s) - 1))
    ELSE s

\* prompt_optimizer.py:45-60: runs of blanks become one blank, then the
\* text is stripped
normalize_whitespace(s) ==
    LET kept == SelectSeq([i \in 1..Len(s) |-> i],
                          LAMBDA i : s[i] # " " \/ i = 1 \/ s[i - 1] # " ")
    IN  strip([k \in 1..Len(kept) |-> s[kept[k]]])

\* prompt_optimizer.py:92-105: of the cleaning steps only the white-space
\* one changes a text of these characters
clean_text(s) == normalize_whitespace(s)

RECURSIVE split_sentences(_)
\* re.split(r'(?<=[.!?])\s+', text)
split_sentences(s) ==
    LET cuts == {i \in 2..Len(s) : s[i] = " " /\ s[i - 1] \in SentenceEnd}
    IN  IF cuts = {} THEN <<s>>
        ELSE LET i == CHOOSE c \in cuts : \A d \in cuts : c <= d
                 after == {j \in (i + 1)..Len(s) : s[j] # " "}
                 next == IF after = {} THEN Len(s) + 1
                         ELSE CHOOSE j \in after : \A k \in after : j <= k
             IN  <<SubSeq(s, 1, i - 1)>>
                     \o split_sentences(SubSeq(s, next, Len(s)))

\* str.lower()
lower(s) == [i \in 1..Len(s) |-> IF s[i] = "A" THEN "a" ELSE s[i]]

RECURSIVE unique_sentences(_, _)
\* prompt_optimizer.py:117-124
unique_sentences(sentences, seen) ==
    IF sentences = <<>> THEN <<>>
    ELSE LET normalized == strip(lower(Head(sentences)))
         IN  IF normalized # <<>> /\ normalized \notin seen
             THEN <<Head(sentences)>>
                      \o unique_sentences(Tail(sentences),
                                          seen \cup {normalized})
             ELSE unique_sentences(Tail(sentences), seen)

RECURSIVE join(_)
\* ' '.join(unique_sentences)
join(sentences) ==
    IF sentences = <<>> THEN <<>>
    ELSE IF Len(sentences) = 1 THEN Head(sentences)
    ELSE Head(sentences) \o <<" ">> \o join(Tail(sentences))

\* prompt_optimizer.py:107-126
deduplicate_sentences(s) ==
    IF s = <<>> THEN s
    ELSE join(unique_sentences(split_sentences(s), {}))

\* prompt_optimizer.py:163-186 with deduplicate True
compress_text(s, ceiling) ==
    IF s = <<>> THEN s
    ELSE LET cleaned == deduplicate_sentences(clean_text(s))
         IN  IF Len(cleaned) > ceiling
             THEN truncate_with_sentence_boundary(cleaned, ceiling)
             ELSE cleaned

\* A text and a positive ceiling are about to be handed to the compactor.
CompactInit ==
    /\ stored = <<>>
    /\ title = "New Conversation"
    /\ conversation = <<>>
    /\ is_first_message = FALSE
    /\ pc = "compact"
    /\ events = <<>>
    /\ calls = <<>>
    /\ clarity_result = NoResult
    /\ title_task = "none"
    /\ stage0_result = Stage0Default
    /\ search_context = "none"
    /\ stage1_results = <<>>
    /\ stage2_results = <<>>
    /\ stage3_result = NoStage3
    /\ stage4_result = NoStage4
    /\ user_query = "none"
    /\ label_to_model = <<>>
    /\ ranking_prompt = "none"
    /\ ranking_text = <<>>
    /\ parsed_ranking = <<>>
    /\ aggregate_rankings = <<>>
    /\ raw_response \in CompactTexts
    /\ max_chars \in 1..MaxText
    /\ optimized = <<>>
    /\ current_messages = <<>>
    /\ metadata = NoMetadata
    /\ other_request = NoRequest
    /\ query_text = <<>>
    /\ available_repos = <<>>
    /\ parse_result = NoParse

\* prompt_optimizer.py:235: the text is cut as it is
TruncateText ==
    /\ pc = "compact"
    /\ optimized' = truncate_with_sentence_boundary(raw_response, max_chars)
    /\ pc' = "truncated"
    /\ UNCHANGED <<ranking, aside, current_messages, raw_response, max_chars, stored, title,
                   conversation, is_first_message, events, calls,
                   clarity_result, title_task, stages>>

\* prompt_optimizer.py:198, council.py:571: the text is cleaned, freed of
\* repeated sentences and cut
CompressText ==
    /\ pc = "compact"
    /\ optimized' = compress_text(raw_response, max_chars)
    /\ pc' = "compressed"
    /\ UNCHANGED <<ranking, aside, current_messages, raw_response, max_chars, stored, title,
                   conversation, is_first_message, events, calls,
                   clarity_result, title_task, stages>>

CompactNext ==
    \/ TruncateText
    \/ CompressText

CompactSpec == CompactInit /\ [][CompactNext]_vars

\* ================================================ the run in one piece
\* run_full_council, the pipeline of the endpoint that answers in one
\* piece: stage 0 to stage 3 one after the other, no events, and nothing
\* that catches what a stage raises.

\* council.py:527-530: the final-stage object of a run without any
\* Stage-1 response
AllFailed ==
    [model |-> "error",
     response |-> "All models failed to respond. Please try again."]

\* the reviews of the run, in the demanded format
RunReviewTexts ==
    {<<"MARK", "NUM", "A">>, <<"MARK", "NUM", "B", "NUM", "A">>}

no_results_mut(results) == FALSE

\* council.py:526: if not stage1_results
no_results(results) == results = <<>>

\* The first message of a conversation has been stored and
\* run_full_council has put it at the end of the empty history
\* (council.py:489-502).
CouncilInit ==
    /\ stored = <<UserMsg>>
    /\ title = "New Conversation"
    /\ conversation = <<>>
    /\ is_first_message = TRUE
    /\ pc = "run_full_council"
    /\ events = <<>>
    /\ calls = <<>>
    /\ clarity_result = NoResult
    /\ title_task = "none"
    /\ stage0_result = Stage0Default
    /\ search_context = "none"
    /\ stage1_results = <<>>
    /\ stage2_results = <<>>
    /\ stage3_result = NoStage3
    /\ stage4_result = NoStage4
    /\ user_query \in Queries
    /\ label_to_model = <<>>
    /\ ranking_prompt = "none"
    /\ ranking_text = <<>>
    /\ parsed_ranking = <<>>
    /\ aggregate_rankings = <<>>
    /\ raw_response = <<>>
    /\ max_chars = 0
    /\ optimized = <<>>
    /\ current_messages = <<[role |-> "user", content |-> Content(1, TRUE)]>>
    /\ metadata = NoMetadata
    /\ other_request = NoRequest
    /\ query_text = <<>>
    /\ available_repos = <<>>
    /\ parse_result = NoParse

\* council.py:516-517: the gate
RunCheckSearchNecessity ==
    /\ pc = "run_full_council"
    /\ \E response \in GateResponses :
          /\ calls' = Append(calls, [Call("gate")
                                       EXCEPT !.result = answer(response)])
          /\ pc' = IF check_search_necessity(response)
                   THEN "run_stage0_web_search"
                   ELSE "run_stage1"
    /\ UNCHANGED <<ranking, compaction, current_messages, metadata,
                   other_request, mentions, stored, title, conversation,
                   is_first_message, events, clarity_result, title_task,
                   stages>>

\* council.py:518-520
RunStage0WebSearch ==
    /\ pc = "run_stage0_web_search"
    /\ \E response \in {"none", "empty", "text"} :
          /\ calls' = Append(calls, [Call("search")
                                       EXCEPT !.result = response])
          /\ stage0_result' = stage0_web_search(response)
          /\ search_context' =
                IF stage0_result'.searched /\ stage0_result'.response # "empty"
                THEN "text" ELSE "none"
    /\ pc' = "run_stage1"
    /\ UNCHANGED <<ranking, compaction, current_messages, metadata,
                   other_request, mentions, stored, title, conversation,
                   is_first_message, events, clarity_result, title_task,
                   stage1_results, stage2_results, stage3_result,
                   stage4_result>>

\* council.py:523-530: stage 1, and the return at once when nobody
\* answered
RunStage1 ==
    /\ pc = "run_stage1"
    /\ \E resp \in [Members -> ResponseTexts \cup {"none"}] :
          /\ calls' = calls \o
                [m \in Members |->
                    [kind |-> "council", model |-> m, force |-> FALSE,
                     result |-> resp[m]]]
          /\ stage1_results' = stage1_collect_responses(resp, 1)
    /\ IF no_results(stage1_results')
       THEN /\ stage3_result' = AllFailed
            /\ metadata' = <<>>
            /\ pc' = "returned"
       ELSE /\ pc' = "run_stage2"
            /\ UNCHANGED <<stage3_result, metadata>>
    /\ UNCHANGED <<ranking, compaction, current_messages, other_request,
                   mentions, stored, title, conversation, is_first_message, events,
                   clarity_result, title_task, stage0_result,
                   search_context, stage2_results, stage4_result>>

\* council.py:533-536: stage 2 and the aggregate of its rankings
RunStage2 ==
    /\ pc = "run_stage2"
    /\ label_to_model' = make_label_to_model(stage1_results)
    /\ ranking_prompt' = make_ranking_prompt(user_query, stage1_results)
    /\ \E back \in SUBSET Members :
          LET came == SelectSeq([m \in Members |-> m], LAMBDA m : m \in back)
          IN  /\ calls' = calls \o
                    [m \in Members |->
                        [kind |-> "reviewer", model |-> m, force |-> FALSE,
                         result |-> IF m \in back THEN "ok" ELSE "none"]]
              /\ \E full_text \in [1..Len(came) -> RunReviewTexts] :
                    stage2_results' =
                       [i \in 1..Len(came) |->
                           [model |-> came[i],
                            ranking |-> full_text[i],
                            parsed_ranking |->
                               parse_ranking_from_text(full_text[i])]]
    /\ aggregate_rankings' =
          calculate_aggregate_rankings(stage2_results', label_to_model')
    /\ pc' = "run_stage3"
    /\ UNCHANGED <<user_query, ranking_text, parsed_ranking, compaction,
                   current_messages, metadata, other_request, mentions, stored,
                   title,
                   conversation, is_first_message, events, clarity_result,
                   title_task, stage0_result, search_context,
                   stage1_results, stage3_result, stage4_result>>

\* council.py:539-552: stage 3, the metadata, the return
RunStage3 ==
    /\ pc = "run_stage3"
    /\ \E response \in {"none", "ok"} :
          /\ calls' = Append(calls, [Call("chairman")
                                       EXCEPT !.result = response])
          /\ stage3_result' = stage3_synthesize_final(response)
    /\ metadata' = [label_to_model |-> label_to_model,
                    aggregate_rankings |-> aggregate_rankings]
    /\ pc' = "returned"
    /\ UNCHANGED <<ranking, compaction, current_messages, other_request,
                   mentions, stored, title, conversation, is_first_message, events,
                   clarity_result, title_task, stage0_result,
                   search_context, stage1_results, stage2_results,
                   stage4_result>>

\* What a stage raises leaves run_full_council as it is: nothing is
\* returned.
RunRaise ==
    /\ pc \in {"run_full_council", "run_stage0_web_search", "run_stage1",
               "run_stage2", "run_stage3"}
    /\ pc' = "raised"
    /\ UNCHANGED <<ranking, compaction, current_messages, metadata,
                   other_request, mentions, stored, title, conversation,
                   is_first_message, events, calls, clarity_result,
                   title_task, stages>>

CouncilNext ==
    \/ RunCheckSearchNecessity
    \/ RunStage0WebSearch
    \/ RunStage1
    \/ RunStage2
    \/ RunStage3
    \/ RunRaise

CouncilSpec == CouncilInit /\ [][CouncilNext]_vars

\* ======================================================== mention parser
\* parse_mentions on queries written as sequences of characters: the
\* marker @, two letters and a blank.

\* characters of a query
MaxQuery == 5

QueryChars == {"@", "a", "b", " "}

MentionQueries == UNION {[1..n -> QueryChars] : n \in 0..MaxQuery}

\* display names of repositories: a name, a longer name it is a prefix
\* of, and a name with a blank in it
RepoNames == {<<"a">>, <<"a", "b">>, <<"a", " ", "b">>}

\* what list_repositories can hand back: up to two of the names, in any
\* order
RepoLists ==
    {<<>>} \cup {<<r>> : r \in RepoNames}
           \cup {p \in RepoNames \X RepoNames : p[1] # p[2]}

\* f"@{repo}"
target(repo) == <<"@">> \o repo

\* t stands in s at position i
occurs_at(s, t, i) ==
    i + Len(t) - 1 <= Len(s) /\ SubSeq(s, i, i + Len(t) - 1) = t

\* rag.py:164: target in current_query
contains(s, t) == \E i \in 1..Len(s) : occurs_at(s, t, i)

RECURSIVE remove_all(_, _)
\* current_query.replace(target, ""): every occurrence, taken from the
\* left, without overlap
remove_all(s, t) ==
    IF s = <<>> THEN s
    ELSE IF occurs_at(s, t, 1)
         THEN remove_all(SubSeq(s, Len(t) + 1, Len(s)), t)
         ELSE <<Head(s)>> \o remove_all(Tail(s), t)

RECURSIVE sort_by_length(_)
\* rag.py:154: available_repos.sort(key=len, reverse=True), a stable sort
sort_by_length(repos) ==
    IF repos = <<>> THEN <<>>
    ELSE LET rest == sort_by_length(SubSeq(repos, 1, Len(repos) - 1))
             e == repos[Len(repos)]
             k == Cardinality({i \in 1..Len(rest) : Len(rest[i]) >= Len(e)})
         IN  SubSeq(rest, 1, k) \o <<e>> \o SubSeq(rest, k + 1, Len(rest))

RECURSIVE match_repositories(_, _, _)
\* rag.py:158-167: the names in order; a name whose target stands anywhere
\* in the query is taken and its target removed
match_repositories(repos, current_query, repositories) ==
    IF repos = <<>>
    THEN [repositories |-> repositories, current_query |-> current_query]
    ELSE IF contains(current_query, target(Head(repos)))
         THEN match_repositories(Tail(repos),
                  remove_all(current_query, target(Head(repos))),
                  Append(repositories, Head(repos)))
         ELSE match_repositories(Tail(repos), current_query, repositories)

RECURSIVE find_mentions(_)
\* rag.py:171: re.findall(r'@(\S+)', current_query)
find_mentions(s) ==
    IF Len(s) < 2 THEN <<>>
    ELSE IF s[1] = "@" /\ s[2] # " "
         THEN LET blanks == {j \in 2..Len(s) : s[j] = " "}
                  last == IF blanks = {} THEN Len(s)
                          ELSE (CHOOSE j \in blanks :
                                   \A k \in blanks : j <= k) - 1
              IN  <<SubSeq(s, 2, last)>>
                      \o find_mentions(SubSeq(s, last + 1, Len(s)))
         ELSE find_mentions(Tail(s))

RECURSIVE remove_mentions(_, _)
\* rag.py:173-177: every mention is a file filter and its marked text is
\* removed
remove_mentions(found, current_query) ==
    IF found = <<>> THEN current_query
    ELSE remove_mentions(Tail(found),
                         remove_all(current_query, target(Head(found))))

RECURSIVE split(_)
\* current_query.split(): the runs of characters between blanks
split(s) ==
    IF s = <<>> THEN <<>>
    ELSE IF Head(s) = " " THEN split(Tail(s))
    ELSE LET blanks == {j \in 1..Len(s) : s[j] = " "}
             last == IF blanks = {} THEN Len(s)
                     ELSE (CHOOSE j \in blanks : \A k \in blanks : j <= k) - 1
         IN  <<SubSeq(s, 1, last)>> \o split(SubSeq(s, last + 1, Len(s)))

\* rag.py:135-189
parse_mentions(s, repos) ==
    LET matched == match_repositories(sort_by_length(repos), s, <<>>)
        files == find_mentions(matched.current_query)
        current_query == remove_mentions(files, matched.current_query)
        cleaned_query == join(split(current_query))
    IN  [cleaned_query |-> IF cleaned_query = <<>> THEN s ELSE cleaned_query,
         repositories |-> matched.repositories,
         files |-> files]

\* A request with use_rag is about to have its mentions parsed.
MentionInit ==
    /\ stored = <<>>
    /\ title = "New Conversation"
    /\ conversation = <<>>
    /\ is_first_message = TRUE
    /\ pc = "parse_mentions"
    /\ events = <<>>
    /\ calls = <<>>
    /\ clarity_result = NoResult
    /\ title_task = "none"
    /\ stage0_result = Stage0Default
    /\ search_context = "none"
    /\ stage1_results = <<>>
    /\ stage2_results = <<>>
    /\ stage3_result = NoStage3
    /\ stage4_result = NoStage4
    /\ user_query = "none"
    /\ label_to_model = <<>>
    /\ ranking_prompt = "none"
    /\ ranking_text = <<>>
    /\ parsed_ranking = <<>>
    /\ aggregate_rankings = <<>>
    /\ raw_response = <<>>
    /\ max_chars = 0
    /\ optimized = <<>>
    /\ current_messages = <<>>
    /\ metadata = NoMetadata
    /\ other_request = NoRequest
    /\ query_text \in MentionQueries
    /\ available_repos \in RepoLists
    /\ parse_result = NoParse

\* main.py:316-321
ParseMentions ==
    /\ pc = "parse_mentions"
    /\ parse_result' = parse_mentions(query_text, available_repos)
    /\ pc' = "query_knowledge_base"
    /\ UNCHANGED <<ranking, compaction, current_messages, metadata,
                   other_request, query_text, available_repos, stored,
                   title, conversation, is_first_message, events, calls,
                   clarity_result, title_task, stages>>

\* main.py:329-333: the knowledge base is queried with what was parsed
QueryKnowledgeBase ==
    /\ pc = "query_knowledge_base"
    /\ calls' = Append(calls, Call("retrieval"))
    /\ pc' = "add_user_message"
    /\ UNCHANGED <<ranking, compaction, aside, current_messages, stored,
                   title, conversation, is_first_message, events,
                   clarity_result, title_task, stages>>

MentionNext ==
    \/ ParseMentions
    \/ QueryKnowledgeBase

MentionSpec == MentionInit /\ [][MentionNext]_vars

\* ============================================ two requests, one conversation
\* A second streaming request on the same conversation, running while the
\* requests of the first client run.  Its steps are those that read or
\* write the history: the load, the user turn, the negotiator's decision
\* and the persistence step; the stages between clarification_complete and
\* the persistence step touch neither conversation["messages"] nor the
\* storage.  The turns it appends are marked so that they can be told from
\* the turns of the first client, as content and timestamp tell them apart
\* in the stored file.

\* user turns in the conversation when a request may still start
ConcTurns == 2

\* a turn appended by the second request
Marked(m) == m @@ [request |-> "second"]

\* main.py:291-294: the second request loads the conversation
OtherLoad ==
    /\ other_request.pc = "idle"
    /\ NumUserTurns(stored) < ConcTurns
    /\ other_request' = [pc |-> "add_user_message",
                         conversation |-> get_conversation(stored)]
    /\ UNCHANGED <<ranking, compaction, current_messages, metadata,
                   mentions, stored, title, conversation, is_first_message,
                   pc, events, calls, clarity_result, title_task, stages>>

\* main.py:366-374: its user turn is appended and the conversation saved
OtherAddUserMessage ==
    /\ other_request.pc = "add_user_message"
    /\ LET messages == Append(other_request.conversation, Marked(UserMsg))
       IN  /\ other_request' = [pc |-> "clarity_decision",
                                conversation |-> messages]
           /\ stored' = save_conversation(messages)
    /\ UNCHANGED <<ranking, compaction, current_messages, metadata,
                   mentions, title, conversation, is_first_message, pc,
                   events, calls, clarity_result, title_task, stages>>

\* what the negotiator of the second request can come to (main.py:412-431)
OtherClarity ==
    IF max_rounds_reached(clarification_count(other_request.conversation))
    THEN {MaxRoundsResult}
    ELSE {assess_clarity(response) : response \in ClarifierResponses}

\* main.py:435-478: insufficient; the clarification turn is appended and
\* saved, the request ends
OtherClarificationNeeded ==
    /\ other_request.pc = "clarity_decision"
    /\ \E result \in OtherClarity : result.isdict /\ ~sufficient(result)
    /\ LET messages == Append(other_request.conversation,
                              Marked(ClarificationMsg))
       IN  /\ other_request' = [pc |-> "done", conversation |-> messages]
           /\ stored' = save_conversation(messages)
    /\ UNCHANGED <<ranking, compaction, current_messages, metadata,
                   mentions, title, conversation, is_first_message, pc,
                   events, calls, clarity_result, title_task, stages>>

\* main.py:480-511: sufficient without a final check before; the
\* final-check turn is appended and saved, the request ends
OtherFinalCheck ==
    /\ other_request.pc = "clarity_decision"
    /\ \E result \in OtherClarity : result.isdict /\ sufficient(result)
    /\ ~is_final_check(other_request.conversation)
    /\ LET messages == Append(other_request.conversation, Marked(FinalMsg))
       IN  /\ other_request' = [pc |-> "done", conversation |-> messages]
           /\ stored' = save_conversation(messages)
    /\ UNCHANGED <<ranking, compaction, current_messages, metadata,
                   mentions, title, conversation, is_first_message, pc,
                   events, calls, clarity_result, title_task, stages>>

\* main.py:513-593: sufficient after the final check; the stages run
OtherProceed ==
    /\ other_request.pc = "clarity_decision"
    /\ \E result \in OtherClarity : result.isdict /\ sufficient(result)
    /\ is_final_check(other_request.conversation)
    /\ other_request' = [other_request EXCEPT !.pc = "add_assistant_message"]
    /\ UNCHANGED <<ranking, compaction, current_messages, metadata,
                   mentions, stored, title, conversation, is_first_message,
                   pc, events, calls, clarity_result, title_task, stages>>

\* main.py:601-612: storage appends the assistant turn to what it holds
OtherAddAssistantMessage ==
    /\ other_request.pc = "add_assistant_message"
    /\ stored' = add_assistant_message(stored)
    /\ other_request' = [other_request EXCEPT !.pc = "done"]
    /\ UNCHANGED <<ranking, compaction, current_messages, metadata,
                   mentions, title, conversation, is_first_message, pc,
                   events, calls, clarity_result, title_task, stages>>

ConcurrentNext ==
    \/ StartRequest(ConcTurns)
    \/ GeneratorStep
    \/ TitleTaskFinish
    \/ OtherLoad
    \/ OtherAddUserMessage
    \/ OtherClarificationNeeded
    \/ OtherFinalCheck
    \/ OtherProceed
    \/ OtherAddAssistantMessage

ConcurrentSpec == Init /\ [][ConcurrentNext]_vars

\* ================================================================== claims
Types == [i \in 1..Len(events) |-> events[i].type]

Emitted(t) == \E i \in 1..Len(events) : events[i].type = t

Called(k) == \E i \in 1..Len(calls) : calls[i].kind = k

IsPrefix(s, t) == Len(s) <= Len(t) /\ \A i \in 1..Len(s) : s[i] = t[i]

HaltOrder == <<"clarification_start", "clarification_needed", "complete">>

StageOrder ==
    <<"clarification_start", "clarification_complete",
      "stage0_start", "stage0_complete", "stage1_start", "stage1_complete",
      "stage2_start", "stage2_complete", "stage3_start", "stage3_complete",
      "stage4_start", "stage4_complete">>

PipelineOrder == StageOrder \o <<"complete">>

PipelineOrderTitle == StageOrder \o <<"title_complete", "complete">>

\* The stream without a closing error frame.
BeforeError ==
    IF Len(events) > 0 /\ events[Len(events)].type = "error"
    THEN SubSeq(Types, 1, Len(events) - 1)
    ELSE Types

\* The generator has appended the user turn of this request.
UserTurnAdded ==
    pc \notin {"idle", "process_attachments", "rag_retrieval",
               "add_user_message"}
    /\ (pc = "done" => Emitted("clarification_start"))

\* Position of this request's user turn in conversation.
CurrentTurn ==
    LET n == Len(conversation)
    IN  CHOOSE i \in {n - k : k \in 0..(n - 1)} :
            /\ conversation[i].role = "user"
            /\ \A j \in (i + 1)..n : conversation[j].role # "user"

\* The history the request loaded, before its own user turn.
PriorHistory == SubSeq(conversation, 1, CurrentTurn - 1)

\* r, counted turn by turn
PriorRounds ==
    Cardinality({i \in 1..Len(PriorHistory) : PriorHistory[i].is_clarification})

\* C1: the event types of a stream are a prefix of one of the two required
\* orders, possibly closed early by a single error frame.
C1_EventOrder ==
    LET stream == BeforeError
    IN  /\ \/ IsPrefix(stream, HaltOrder)
           \/ IsPrefix(stream, PipelineOrder)
           \/ IsPrefix(stream, PipelineOrderTitle)
        /\ \A i \in 1..Len(stream) : stream[i] # "error"

C1_Witness ==
    pc = "done" /\ Types = PipelineOrder

Terminal == {"complete", "error"}

\* C2: a stream carries at most one terminal event, nothing follows it, a
\* finished generator has emitted one, and a generator that has not finished
\* can always take its next step, whichever step raised.
C2_TerminalEvent ==
    /\ \A i \in 1..Len(events) :
          events[i].type \in Terminal => i = Len(events) /\ pc = "done"
    /\ pc = "done" =>
          Len(events) > 0 /\ events[Len(events)].type \in Terminal
    /\ pc \notin {"idle", "done"} => ENABLED (GeneratorStep \/ TitleTaskFinish)

C2_Witness ==
    /\ pc = "done"
    /\ events[Len(events)].type = "error"
    /\ Emitted("stage2_start")

StageEvents ==
    {"stage0_start", "stage0_complete", "stage1_start", "stage1_complete",
     "stage2_start", "stage2_complete", "stage3_start", "stage3_complete",
     "stage4_start", "stage4_complete"}

PipelineCalls == {"gate", "search", "council", "reviewer", "chairman", "image"}

\* C3: once clarification_needed is on the stream, the only event that
\* follows is complete, it does follow, and the turn has no stage event and
\* no gate, search, council, reviewer, chairman or image call.
C3_HaltStopsPipeline ==
    \A i \in 1..Len(events) :
        events[i].type = "clarification_needed" =>
            /\ i < Len(events) =>
                  i + 1 = Len(events) /\ events[i + 1].type = "complete"
            /\ pc = "done" => i < Len(events)
            /\ \A j \in 1..Len(events) : events[j].type \notin StageEvents
            /\ \A k \in 1..Len(calls) : calls[k].kind \notin PipelineCalls

C3_Witness ==
    /\ pc = "done"
    /\ Types = HaltOrder
    /\ conversation[Len(conversation)] = ClarificationMsg

\* C4: a first turn whose assessment reports insufficient yields a
\* clarification_needed event with at least one question and no
\* stage0_start.
C4_VagueFirstTurn ==
    (/\ UserTurnAdded
     /\ is_first_message
     /\ pc \in {"halt_complete", "done"}
     /\ clarity_result.isdict
     /\ ~sufficient(clarity_result)
     /\ ~Emitted("error"))
    => /\ \E i \in 1..Len(events) :
             /\ events[i].type = "clarification_needed"
             /\ events[i].questions >= 1
       /\ ~Emitted("stage0_start")

\* Two clarification rounds, then the final-confirmation turn, are the
\* assistant turns of the history this request loaded.
ScenarioHistory ==
    SelectSeq(PriorHistory, LAMBDA m : m.role = "assistant")
        = <<ClarificationMsg, ClarificationMsg, FinalMsg>>

PastDecision ==
    UserTurnAdded /\ pc \notin {"clarification_start", "assess_clarity",
                                "clarity_decision"}

\* C5 as stated: every turn on such a history in which nothing raises goes
\* through all five stages and ends in complete.
C5_Original ==
    (pc = "done" /\ UserTurnAdded /\ ScenarioHistory /\ ~Emitted("error"))
    => Types = PipelineOrder

\* C5 amended: every turn on such a history that the negotiator judges
\* sufficient stays on the pipeline order and, when nothing raises, ends
\* with all five stages run and complete.
C5_ScenarioProceeds ==
    (/\ PastDecision
     /\ ScenarioHistory
     /\ clarity_result.isdict
     /\ sufficient(clarity_result))
    => /\ IsPrefix(BeforeError, PipelineOrder)
       /\ (pc = "done" /\ ~Emitted("error")) => Types = PipelineOrder

C5_Witness ==
    /\ pc = "done"
    /\ UserTurnAdded
    /\ ScenarioHistory
    /\ Types = PipelineOrder

\* C6: a turn that emits clarification_complete or stage0_start has at
\* least two prior clarification rounds.
C6_MinimumRounds ==
    (UserTurnAdded /\ (Emitted("clarification_complete") \/ Emitted("stage0_start")))
    => PriorRounds >= 2

AssessCalls == SelectSeq(calls, LAMBDA c : c.kind = "assess")

\* C7: with r the number of clarification-flagged turns already in the
\* history, the assessment call is made iff r < 4, its force flag is set
\* iff r < 2, and for r >= 4 the turn counts as sufficient without a call.
C7_RoundCounting ==
    /\ pc \in {"process_attachments", "rag_retrieval", "add_user_message",
               "clarification_start", "assess_clarity"} => AssessCalls = <<>>
    /\ pc = "clarity_decision" =>
          /\ Len(AssessCalls) <= 1
          /\ Len(AssessCalls) = 1 <=> PriorRounds < 4
          /\ Len(AssessCalls) = 1 => (AssessCalls[1].force <=> PriorRounds < 2)
          /\ PriorRounds >= 4 =>
                clarity_result.isdict /\ sufficient(clarity_result)

C7_Witness ==
    pc = "clarity_decision" /\ PriorRounds >= 4 /\ AssessCalls = <<>>

\* The most recent assistant turn of h is the final-confirmation turn.
LastAssistantFinal(h) ==
    \E i \in 1..Len(h) :
        /\ h[i].role = "assistant"
        /\ h[i].is_final_clarification
        /\ \A j \in (i + 1)..Len(h) : h[j].role # "assistant"

\* C8: a turn that emits clarification_complete has the final-confirmation
\* turn as the most recent assistant turn of its history, answered by this
\* user turn, and no council call is made without clarification_complete.
C8_FinalCheckBeforeCouncil ==
    /\ Emitted("clarification_complete") =>
          UserTurnAdded /\ LastAssistantFinal(PriorHistory)
    /\ Called("council") => Emitted("clarification_complete")

C8_Witness ==
    pc = "stage2_start" /\ Called("council")

\* The final-check question went out in this turn.
FinalCheckEmitted ==
    /\ Emitted("clarification_needed")
    /\ conversation[Len(conversation)] = FinalMsg

PriorFinalFlag ==
    \E i \in 1..Len(PriorHistory) : PriorHistory[i].is_final_clarification

JudgedSufficient ==
    PastDecision /\ clarity_result.isdict /\ sufficient(clarity_result)
    /\ ~Emitted("error")

\* C9 as stated: a sufficient turn proceeds whenever some earlier turn is
\* flagged final-confirmation, and the final check goes out only when none
\* is.
C9_Original ==
    /\ (JudgedSufficient /\ PriorFinalFlag) => Emitted("clarification_complete")
    /\ (PastDecision /\ FinalCheckEmitted) => ~PriorFinalFlag

\* C9 amended: a sufficient turn proceeds exactly when the most recent
\* assistant turn of the history is the final-confirmation turn; otherwise
\* the final check goes out and the turn halts.
C9_LastAssistantDecides ==
    JudgedSufficient =>
        IF LastAssistantFinal(PriorHistory)
        THEN Emitted("clarification_complete") /\ ~FinalCheckEmitted
        ELSE FinalCheckEmitted /\ ~Emitted("clarification_complete")

C9_Witness ==
    /\ pc = "done"
    /\ JudgedSufficient
    /\ PriorFinalFlag
    /\ FinalCheckEmitted

\* C10: an assessment that failed or whose content is not the expected
\* structured result leaves the turn sufficient with the raw user text as
\* refined topic, and no clarifying-question turn is appended for it.
C10_FailOpen ==
    (/\ UserTurnAdded
     /\ Len(AssessCalls) = 1
     /\ AssessCalls[1].result \in {"failed", "nondict"})
    => /\ pc = "clarity_decision" =>
             /\ clarity_result.isdict
             /\ sufficient(clarity_result)
             /\ clarity_result.refined_topic = "latest_user_message"
       /\ conversation[Len(conversation)] # ClarificationMsg

RECURSIVE ClarFrom(_, _)
\* Clarification-flagged turns among the first i of h that lie behind the
\* last final-answer turn of those.
ClarFrom(h, i) ==
    IF i = 0 \/ h[i].stage3 THEN 0
    ELSE (IF h[i].is_clarification THEN 1 ELSE 0) + ClarFrom(h, i - 1)

\* Clarification-flagged turns of h after its last final-answer turn.
ClarSince(h) == ClarFrom(h, Len(h))

\* The last n user turns of h were each answered by a clarification turn.
HaltedRun(h, n) ==
    /\ 2 * n <= Len(h)
    /\ \A k \in 1..n :
          /\ h[Len(h) - 2 * k + 1].role = "user"
          /\ h[Len(h) - 2 * k + 2].is_clarification

\* C11: no more than 5 clarification turns are stored between two final
\* answers or before the first one, no more than 5 consecutive user turns
\* are halted, and a turn that follows 5 consecutive halted turns and does
\* not raise proceeds to stage 0.
C11_BoundedNegotiation ==
    /\ ClarSince(stored) <= 5
    /\ ~HaltedRun(stored, 6)
    /\ (PastDecision /\ HaltedRun(PriorHistory, 5) /\ ~Emitted("error"))
          => Emitted("clarification_complete")

C11_Witness ==
    /\ pc = "done"
    /\ UserTurnAdded
    /\ HaltedRun(PriorHistory, 5)
    /\ Types = PipelineOrder

\* C12: in a streaming turn whose Stage 1 came back empty, no reviewer and
\* no chairman call is made and the final-stage result is the synthetic
\* failure object.
C12_EmptyStage1ShortCircuit ==
    (Emitted("stage1_complete") /\ stage1_results = <<>>)
    => /\ ~Called("reviewer")
       /\ ~Called("chairman")
       /\ Emitted("stage3_complete") =>
             stage3_result.response = "Error: Unable to generate final synthesis."

\* Positions in calls of the calls of one kind.
CallsOfKind(k) == {i \in 1..Len(calls) : calls[i].kind = k}

\* Every call of kind k has come back.
AllResolved(k) == \A i \in CallsOfKind(k) : calls[i].result # "pending"

\* Every member has been sent a call of kind k.
AllDispatched(k) ==
    \A m \in Members : \E i \in CallsOfKind(k) : calls[i].model = m

\* C13: once a reviewer call exists every member's Stage-1 call has been
\* dispatched and has resolved, and once the chairman call exists every
\* member's reviewer call has been dispatched and has resolved, whatever
\* order the member calls came back in.
C13_Barrier ==
    /\ Called("reviewer") => AllDispatched("council") /\ AllResolved("council")
    /\ Called("chairman") => AllDispatched("reviewer") /\ AllResolved("reviewer")

C13_Witness ==
    /\ pc = "stage2_gather"
    /\ calls[CallOf("council", 1)].result = "none"
    /\ calls[CallOf("reviewer", 1)].result = "pending"
    /\ calls[CallOf("reviewer", NumMembers)].result # "pending"

\* Stage 1 has handed back its result list.
Stage1Done == Emitted("stage1_complete")

\* C14: the Stage-1 result list holds, in roster order, exactly one entry
\* for each member whose call succeeded, carrying that member's own
\* response, and no entry for a member whose call failed.
C14_FailureIsolation ==
    Stage1Done =>
        /\ \A m \in Members :
              LET r == calls[CallOf("council", m)].result
                  entries == {i \in 1..Len(stage1_results) :
                                 stage1_results[i].model = m}
              IN  IF r = "none" THEN entries = {}
                  ELSE /\ Cardinality(entries) = 1
                       /\ \A i \in entries : stage1_results[i].response = r
        /\ \A i \in 1..Len(stage1_results) :
              /\ stage1_results[i].model \in Members
              /\ \A j \in (i + 1)..Len(stage1_results) :
                    stage1_results[i].model < stage1_results[j].model

C14_Witness ==
    /\ Stage1Done
    /\ calls[CallOf("council", 1)].result = "none"
    /\ Len(stage1_results) = NumMembers - 1
    /\ stage1_results[1].response # stage1_results[2].response

\* C15: within one run every member is called at most once as council
\* member and at most once as reviewer, and the chairman at most once; a
\* call that came back empty stays in the log as it is.
C15_NoRetry ==
    /\ \A k \in {"council", "reviewer"} : \A m \in Members :
          Cardinality({i \in CallsOfKind(k) : calls[i].model = m}) <= 1
    /\ Cardinality(CallsOfKind("chairman")) <= 1

C15_Witness ==
    /\ pc = "stage4_start"
    /\ calls[CallOf("council", 1)].result = "none"
    /\ calls[CallOf("reviewer", 2)].result = "none"
    /\ stage3_result.response = "Error: Unable to generate final synthesis."

\* Stage 2 has built its labels, mapping and prompt.
Stage2Built == Called("reviewer")

\* C16: for N Stage-1 results the mapping has exactly the N keys
\* Response A, Response B, ..., the i-th key maps to the model of the i-th
\* result, and the mapping is one-to-one onto the surviving models.
C16_LabelBijection ==
    Stage2Built =>
        LET N == Len(stage1_results)
            key(i) == <<"Response", Letters[i]>>
        IN  /\ DOMAIN label_to_model = {key(i) : i \in 1..N}
            /\ Cardinality(DOMAIN label_to_model) = N
            /\ \A i \in 1..N : label_to_model[key(i)] = stage1_results[i].model
            /\ \A k1, k2 \in DOMAIN label_to_model :
                  label_to_model[k1] = label_to_model[k2] => k1 = k2
            /\ {label_to_model[k] : k \in DOMAIN label_to_model}
                  = {m \in Members : calls[CallOf("council", m)].result # "none"}

C16_Witness ==
    /\ Stage2Built
    /\ Len(stage1_results) = 2
    /\ stage1_results[1].model = 2

\* C17: the prompt of the reviewers holds the query and the labelled
\* response texts and nothing else, and any run whose Stage-1 results carry
\* the same texts under other model identifiers builds the same prompt.
C17_Anonymity ==
    Stage2Built =>
        /\ ranking_prompt =
              [question |-> user_query,
               responses_text |->
                  [i \in 1..Len(stage1_results) |->
                      [label |-> <<"Response", Letters[i]>>,
                       text |-> stage1_results[i].response]]]
        /\ \A other \in [1..Len(stage1_results) -> Members] :
              make_ranking_prompt(user_query,
                  [i \in 1..Len(stage1_results) |->
                      [model |-> other[i],
                       response |-> stage1_results[i].response]])
                = ranking_prompt

C17_Witness ==
    /\ Stage2Built
    /\ Len(stage1_results) = 2
    /\ stage1_results[1].model = 2
    /\ stage1_results[1].response # stage1_results[2].response

\* Everything after the first marker of a text.
AfterMarker(text) == SubSeq(text, first_marker(text) + 1, Len(text))

\* C18: with a marker and numbered entries in the text after it the result
\* is the labels of those entries in order; with a marker and no numbered
\* entry after it the result is every label occurrence after the marker;
\* without a marker it is every label occurrence of the whole text.
C18_ThreeTier ==
    pc = "parsed" =>
        IF has_marker(ranking_text)
        THEN IF find_numbered(AfterMarker(ranking_text), 1) # <<>>
             THEN parsed_ranking = find_numbered(AfterMarker(ranking_text), 1)
             ELSE parsed_ranking = find_labels(AfterMarker(ranking_text))
        ELSE parsed_ranking = find_labels(ranking_text)

RECURSIVE FirstAppearance(_)
\* The labels of a list, each once, ordered by where it first occurs.
FirstAppearance(seq) ==
    IF seq = <<>> THEN <<>>
    ELSE <<Head(seq)>>
             \o FirstAppearance(SelectSeq(Tail(seq), LAMBDA t : t # Head(seq)))

\* C19: for a text without marker the result lists each label that occurs
\* in the text once, ordered by where it first occurs.
C19_FirstAppearance ==
    (pc = "parsed" /\ ~has_marker(ranking_text))
    => parsed_ranking = FirstAppearance(find_labels(ranking_text))

\* C20: parsing the written-out label list again gives the same list.
C20_Idempotent ==
    [][pc = "canonical" => parsed_ranking' = parsed_ranking]_vars

C20_Witness ==
    /\ pc = "reparsed"
    /\ Len(parsed_ranking) = 3
    /\ parsed_ranking[1] = parsed_ranking[3]
    /\ Len(ranking_text) = 5

\* ------------------------------------------------------------------ C21
\* the label texts of the current run's bijection
Assigned == {k[2] : k \in DOMAIN label_to_model}

\* C21: every parsed ranking stored in a Stage-2 result holds only labels
\* of the current run's label-to-model bijection.
C21_ParsedWithinBijection ==
    \A i \in 1..Len(stage2_results) :
        \A j \in 1..Len(stage2_results[i].parsed_ranking) :
            stage2_results[i].parsed_ranking[j] \in Assigned

\* ------------------------------------------------------------- C22 - C25
\* the aggregate of the turn has been computed
Aggregated == pc = "stage3_start"

\* where the label of model m stands in the stored parsed rankings:
\* <<submission, 1-based position>>
Occurrences(m) ==
    UNION {{<<r, j>> : j \in {j \in 1..Len(stage2_results[r].parsed_ranking) :
                  /\ stage2_results[r].parsed_ranking[j] \in Assigned
                  /\ label_to_model[<<"Response",
                         stage2_results[r].parsed_ranking[j]>>] = m}} :
           r \in 1..Len(stage2_results)}

RECURSIVE PositionSum(_)
PositionSum(occ) ==
    IF occ = {} THEN 0
    ELSE LET o == CHOOSE o \in occ : TRUE
         IN  o[2] + PositionSum(occ \ {o})

RankedModels ==
    {m \in {label_to_model[k] : k \in DOMAIN label_to_model} :
        Occurrences(m) # {}}

OneEntryPerRankedModel ==
    /\ {aggregate_rankings[k].model : k \in 1..Len(aggregate_rankings)}
           = RankedModels
    /\ Len(aggregate_rankings) = Cardinality(RankedModels)

\* The statement of C22 as written: the mean rank is the quotient itself.
C22_Original ==
    Aggregated =>
        /\ OneEntryPerRankedModel
        /\ \A k \in 1..Len(aggregate_rankings) :
              LET e == aggregate_rankings[k]
              IN  e.average_rank * Cardinality(Occurrences(e.model))
                      = 100 * PositionSum(Occurrences(e.model))

\* C22: the aggregate has one entry per model whose label stands in at
\* least one parsed ranking and none for any other model; labels outside
\* label_to_model count for no model; each entry's mean rank is the sum of
\* the 1-based positions of the model's label divided by their number,
\* rounded to the nearest hundredth.
C22_MeanRank ==
    Aggregated =>
        /\ OneEntryPerRankedModel
        /\ \A k \in 1..Len(aggregate_rankings) :
              LET e == aggregate_rankings[k]
                  n == Cardinality(Occurrences(e.model))
                  d == 100 * PositionSum(Occurrences(e.model))
                           - e.average_rank * n
              IN  2 * d <= n /\ 2 * (0 - d) <= n

\* a mean of 4/3 was reported as 1.33, next to a label the mapping does
\* not know
C22_Witness ==
    /\ Aggregated
    /\ \E k \in 1..Len(aggregate_rankings) :
          /\ aggregate_rankings[k].average_rank = 133
          /\ PositionSum(Occurrences(aggregate_rankings[k].model)) = 4
    /\ \E r \in 1..Len(stage2_results) :
          \E j \in 1..Len(stage2_results[r].parsed_ranking) :
              stage2_results[r].parsed_ranking[j] \notin Assigned

\* the means of two models are the same number
ExactTie(m1, m2) ==
    PositionSum(Occurrences(m1)) * Cardinality(Occurrences(m2))
        = PositionSum(Occurrences(m2)) * Cardinality(Occurrences(m1))

\* when the label of m is met first: submissions in order, labels within
\* a submission in order
FirstEncounter(m) ==
    LET at == {o[1] * (MaxRanked + 2) + o[2] : o \in Occurrences(m)}
    IN  CHOOSE x \in at : \A y \in at : x <= y

TwoReviewScenario ==
    /\ Aggregated
    /\ Len(stage1_results) = 3
    /\ Len(stage2_results) = 2
    /\ stage2_results[1].parsed_ranking = <<"C", "A", "B">>
    /\ stage2_results[2].parsed_ranking = <<"A", "C", "B">>

ModelOf(letter) == label_to_model[<<"Response", letter>>]

ScenarioMeans ==
    \A k \in 1..Len(aggregate_rankings) :
        aggregate_rankings[k].average_rank =
            IF aggregate_rankings[k].model = ModelOf("B") THEN 300 ELSE 150

\* The statement of C24 as written: final order A, C, B.
C24_Original ==
    TwoReviewScenario =>
        /\ ScenarioMeans
        /\ [k \in 1..Len(aggregate_rankings) |-> aggregate_rankings[k].model]
               = <<ModelOf("A"), ModelOf("C"), ModelOf("B")>>

\* C24: for the parsed rankings [C, A, B] and [A, C, B] over models A, B,
\* C the means are 1.5 for A, 1.5 for C and 3 for B, and the final order
\* is C, A, B: C is the label encountered first.
C24_TieScenario ==
    TwoReviewScenario =>
        /\ ScenarioMeans
        /\ [k \in 1..Len(aggregate_rankings) |-> aggregate_rankings[k].model]
               = <<ModelOf("C"), ModelOf("A"), ModelOf("B")>>

C24_Witness == TwoReviewScenario /\ Len(aggregate_rankings) = 3

\* C25: rankings_count is the number of submissions that contributed a
\* position for the model, and never exceeds the number of Stage-2
\* submissions.
C25_CountIsSubmissions ==
    Aggregated =>
        \A k \in 1..Len(aggregate_rankings) :
            /\ aggregate_rankings[k].rankings_count =
                   Cardinality({o[1] : o \in
                                   Occurrences(aggregate_rankings[k].model)})
            /\ aggregate_rankings[k].rankings_count <= Len(stage2_results)

\* ------------------------------------------------------------------ C26
\* how the call of one kind came back, for a kind called at most once
Outcome(k) == {calls[i].result : i \in CallsOfKind(k)}

\* C26: when the chairman call comes back with no response,
\* stage3_synthesize_final returns the synthetic failure object and stage 3
\* completes; whenever stage 3 has completed the caller holds an object
\* with a model and a response text.
C26_SyntheticFailure ==
    /\ "none" \in Outcome("chairman") =>
          /\ stage3_result =
                [model |-> "CHAIRMAN_MODEL",
                 response |-> "Error: Unable to generate final synthesis."]
          /\ Emitted("stage3_complete")
          /\ pc # "done" => ~Emitted("error")
    /\ Emitted("stage3_complete") =>
          /\ DOMAIN stage3_result = {"model", "response"}
          /\ stage3_result.model # "none"
          /\ stage3_result.response # "none"

\* the chairman failed and the turn went on to its end
C26_Witness ==
    /\ "none" \in Outcome("chairman")
    /\ pc = "done"
    /\ events[Len(events)].type = "complete"
    /\ stored[Len(stored)] = AssistantMsg

\* ------------------------------------------------------------------ C27
\* C27: generated holds exactly when an image payload was extracted, so
\* not when the image call failed; a turn whose stage 4 produced no image
\* has emitted stage4_complete and, unless a later step raises, persists
\* the assistant turn and ends in complete.
C27_Stage4NonFatal ==
    /\ stage4_result.generated <=> stage4_result.image_data # "none"
    /\ stage4_result.error = "Failed to generate infographic" =>
          ~stage4_result.generated
    /\ (stage4_result # NoStage4 /\ ~stage4_result.generated) =>
          /\ Emitted("stage4_complete")
          /\ pc # "done" => ~Emitted("error")
          /\ (pc = "done" /\ ~Emitted("error")) =>
                /\ events[Len(events)].type = "complete"
                /\ stored[Len(stored)] = AssistantMsg

\* the image call failed and the turn ended in complete
C27_Witness ==
    /\ stage4_result.error = "Failed to generate infographic"
    /\ stage3_result.response = "synthesis"
    /\ pc = "done"
    /\ events[Len(events)].type = "complete"
    /\ stored[Len(stored)] = AssistantMsg

\* ------------------------------------------------------------------ C28
\* C28: the research call is issued iff the gate's answer is the literal
\* YES; a failed gate call counts as NO; after NO, and after a research
\* call that failed, stage 0 completes with no search context and stage 1
\* starts; a search context exists only after a research call that
\* returned non-empty text.
C28_SearchGate ==
    /\ Called("search") <=>
          (Outcome("gate") = {"YES"} /\ pc # "stage0_web_search")
    /\ (Outcome("gate") \cap {"none", "NO"} # {}) =>
          /\ stage0_result = Stage0Default
          /\ search_context = "none"
          /\ Emitted("stage0_complete")
    /\ "none" \in Outcome("search") =>
          /\ ~stage0_result.searched
          /\ search_context = "none"
          /\ Emitted("stage0_complete")
    /\ search_context # "none" <=>
          (Outcome("search") = {"text"} /\ stage0_result.response = "text")
    /\ (Emitted("stage0_complete") /\ pc \notin {"stage1_start"}) =>
          Emitted("stage1_start")

\* the gate said yes, the research call failed, and stage 1 ran without a
\* search context
C28_Witness ==
    /\ Outcome("gate") = {"YES"}
    /\ Outcome("search") = {"none"}
    /\ search_context = "none"
    /\ Emitted("stage1_complete")

\* ------------------------------------------------------------------ C30
\* C30: a turn that started a title task and ended in complete has joined
\* the task: the title is persisted and title_complete was emitted.
C30_TitleJoined ==
    (pc = "done" /\ title_task # "none"
        /\ events[Len(events)].type = "complete")
    => /\ title = "generated"
       /\ Emitted("title_complete")

\* ------------------------------------------------------------------ C29
\* the text the cut works on
CutInput ==
    IF pc = "truncated" THEN raw_response
    ELSE deduplicate_sentences(clean_text(raw_response))

\* a sentence end followed by white space
HasSentenceBoundary(s) ==
    \E i \in 1..(Len(s) - 1) : s[i] \in SentenceEnd /\ s[i + 1] = " "

\* C29: a compacted text is at most max_chars long, except in the ellipsis
\* fallback, taken when the first max_chars characters hold no sentence
\* boundary, where it is those characters followed by three periods.
C29_CeilingOrEllipsis ==
    (pc \in {"truncated", "compressed"} /\ Len(optimized) > max_chars)
    => /\ optimized = SubSeq(CutInput, 1, max_chars) \o <<".", ".", ".">>
       /\ ~HasSentenceBoundary(SubSeq(CutInput, 1, max_chars))

\* ------------------------------------------------------------------ C31
\* what a step of a turn may add to the stored history: nothing, or one
\* turn at its end, and then the user turn by the step that saves it, a
\* clarification turn by the negotiator, or the final assistant turn by the
\* persistence step
AppendedBy ==
    \/ stored' = stored
    \/ /\ pc = "add_user_message"
       /\ stored' = Append(stored, UserMsg)
    \/ /\ pc = "clarity_decision"
       /\ stored' \in {Append(stored, ClarificationMsg),
                       Append(stored, FinalMsg)}
    \/ /\ pc = "add_assistant_message"
       /\ stored' = Append(stored, AssistantMsg)

\* C31: within a streaming turn the stored history only grows at its end:
\* every step leaves the turns already stored as an unchanged prefix, the
\* in-memory history of the running turn is never cut or rewritten either,
\* and the only appends are the user turn, the negotiator's clarification
\* turns and the final assistant turn of the persistence step.
C31_AppendOnly ==
    [][/\ IsPrefix(stored, stored')
       /\ AppendedBy
       /\ pc \notin {"idle", "done"} => IsPrefix(conversation, conversation')
      ]_vars

\* a later turn of a conversation ran the whole pipeline and stored its
\* answer behind the turns of the earlier requests
C31_Witness ==
    /\ pc = "done"
    /\ UserTurnAdded
    /\ Len(PriorHistory) >= 2
    /\ stored = PriorHistory \o <<UserMsg, AssistantMsg>>

\* ------------------------------------------------------------------ C32
\* C32: the knowledge-retrieval query of a turn is issued only after the
\* negotiator let the turn through and after the search gate was asked, so
\* a turn the negotiator halts has no retrieval call.
C32_RetrievalAfterGate ==
    /\ Called("retrieval") =>
          /\ Emitted("clarification_complete")
          /\ Called("gate")
          /\ \A i \in CallsOfKind("retrieval") :
                \E j \in CallsOfKind("gate") : j < i
    /\ Emitted("clarification_needed") => ~Called("retrieval")

\* ------------------------------------------------------------------ C33
\* clarification-flagged turns of a history, counted turn by turn
Rounds(h) == Cardinality({i \in 1..Len(h) : h[i].is_clarification})

\* the negotiator halted this turn: its questions went out
Halted == UserTurnAdded /\ Emitted("clarification_needed")

\* C33: a turn the negotiator halts has appended exactly one
\* clarification-flagged turn, right behind its user turn, and the next
\* turn counts exactly one round more; a turn the negotiator lets through
\* has appended none; the count the negotiator works with is the number of
\* clarification turns of the history; a stored clarification turn is never
\* changed.
C33_OneRoundPerHalt ==
    /\ [](/\ Halted =>
                /\ Len(conversation) = Len(PriorHistory) + 2
                /\ conversation[Len(conversation) - 1] = UserMsg
                /\ conversation[Len(conversation)].is_clarification
                /\ stored = conversation
                /\ Rounds(stored) = PriorRounds + 1
          /\ (UserTurnAdded /\ Emitted("clarification_complete")) =>
                /\ conversation = PriorHistory \o <<UserMsg>>
                /\ Rounds(stored) = PriorRounds
          /\ pc = "assess_clarity" =>
                clarification_count(conversation) = PriorRounds)
    /\ [][/\ (Halted /\ pc = "done" /\ pc' = "process_attachments") =>
                Rounds(conversation') = PriorRounds + 1
          /\ \A i \in 1..Len(stored) :
                stored[i].is_clarification =>
                    Len(stored') >= i /\ stored'[i] = stored[i]
         ]_vars

\* the turn after three halted turns, the last of them halted with the
\* final check, counts three rounds
C33_Witness ==
    /\ pc = "assess_clarity"
    /\ HaltedRun(PriorHistory, 3)
    /\ PriorHistory[Len(PriorHistory)] = FinalMsg
    /\ clarification_count(conversation) = 3

\* ------------------------------------------------------------------ C34
\* every reviewer call of the log stands before every chairman call
ReviewersBeforeChairman ==
    \A i \in CallsOfKind("reviewer") : \A j \in CallsOfKind("chairman") : i < j

\* C34: when Stage 1 of run_full_council comes back empty the run has
\* returned at once, with an empty Stage-1 list, an empty Stage-2 list, the
\* failure object as Stage-3 result and empty metadata, and no reviewer
\* and no chairman call was made; otherwise Stage 2 runs, then the
\* aggregate is computed, then Stage 3 runs, and what is returned is their
\* results.
C34_RunShortCircuit ==
    /\ (Called("council") /\ stage1_results = <<>>) =>
          /\ pc = "returned"
          /\ stage2_results = <<>>
          /\ stage3_result = AllFailed
          /\ metadata = <<>>
          /\ ~Called("reviewer")
          /\ ~Called("chairman")
    /\ (Called("council") /\ stage1_results # <<>>) =>
          /\ pc = "run_stage2" => ~Called("reviewer") /\ ~Called("chairman")
          /\ pc = "run_stage3" =>
                /\ AllDispatched("reviewer")
                /\ ~Called("chairman")
                /\ aggregate_rankings =
                      calculate_aggregate_rankings(stage2_results,
                                                   label_to_model)
          /\ pc = "returned" =>
                /\ AllDispatched("reviewer")
                /\ Cardinality(CallsOfKind("chairman")) = 1
                /\ ReviewersBeforeChairman
                /\ stage3_result # AllFailed
                /\ stage3_result \in {stage3_synthesize_final(r) :
                                         r \in {"none", "ok"}}
                /\ metadata =
                      [label_to_model |-> make_label_to_model(stage1_results),
                       aggregate_rankings |->
                          calculate_aggregate_rankings(stage2_results,
                                                       label_to_model)]

\* the search ran and brought text, then every council member failed
C34_Witness ==
    /\ pc = "returned"
    /\ stage0_result.searched
    /\ search_context = "text"
    /\ \A m \in Members : calls[CallOf("council", m)].result = "none"
    /\ stage3_result = AllFailed

\* ------------------------------------------------------------------ C35
Known == {available_repos[i] : i \in 1..Len(available_repos)}

Selected ==
    {parse_result.repositories[i] : i \in 1..Len(parse_result.repositories)}

Filters == {parse_result.files[i] : i \in 1..Len(parse_result.files)}

\* the marked text of name r stands at position i of the query
MentionAt(r, i) == occurs_at(query_text, target(r), i)

\* position i of the query starts a marked token: a marker with a character
\* right behind it and no marker before it in the same word
TokenAt(i) ==
    /\ i < Len(query_text)
    /\ query_text[i] = "@"
    /\ query_text[i + 1] # " "
    /\ \A j \in 1..(i - 1) :
          query_text[j] = "@" => \E k \in (j + 1)..(i - 1) : query_text[k] = " "

\* the marked token that starts at position i, without its marker
Token(i) ==
    LET blanks == {j \in (i + 1)..Len(query_text) : query_text[j] = " "}
        last == IF blanks = {} THEN Len(query_text)
                ELSE (CHOOSE j \in blanks : \A k \in blanks : j <= k) - 1
    IN  SubSeq(query_text, i + 1, last)

\* the token at position i names a known repository, alone or as the
\* first word of a name with blanks that is written out there
NamesRepository(i) ==
    \/ Token(i) \in Known
    \/ \E r \in Known :
          /\ MentionAt(r, i)
          /\ i + Len(r) = Len(query_text) \/ query_text[i + Len(r) + 1] = " "

\* C35: when the query mentions a known repository L of which a shorter
\* known repository S is a proper prefix, and S is mentioned nowhere else,
\* L is selected and S is not; every marked token that does not name a
\* known repository is returned whole as a file-name filter and its marked
\* text is gone from the cleaned query, unless nothing but mentions was
\* written and the query is handed on as it is.
C35_LongestFirst ==
    pc = "query_knowledge_base" =>
        /\ \A L, S \in Known :
              (/\ Len(S) < Len(L)
               /\ SubSeq(L, 1, Len(S)) = S
               /\ contains(query_text, target(L))
               /\ \A i \in 1..Len(query_text) :
                     MentionAt(S, i) => MentionAt(L, i))
              => L \in Selected /\ S \notin Selected
        /\ \A i \in 1..Len(query_text) :
              (TokenAt(i) /\ ~NamesRepository(i)) =>
                  /\ Token(i) \in Filters
                  /\ \/ parse_result.cleaned_query = query_text
                     \/ ~contains(parse_result.cleaned_query,
                                  target(Token(i)))

\* ------------------------------------------------------------------ C36
\* the messages of the hand-over that carry the text of the current turn
OfCurrentTurn ==
    {k \in 1..Len(current_messages) :
        current_messages[k].content.of = CurrentTurn}

\* C36: the message sequence handed to Stage 1 holds the current user turn
\* exactly once, as its last message and with processed_content, and
\* before it only turns of earlier requests.
C36_CurrentTurnOnce ==
    current_messages # <<>> =>
        /\ current_messages[Len(current_messages)] =
              [role |-> "user", content |-> Content(CurrentTurn, TRUE)]
        /\ OfCurrentTurn = {Len(current_messages)}
        /\ \A k \in 1..(Len(current_messages) - 1) :
              current_messages[k].content.of < CurrentTurn

\* ------------------------------------------------------------------ C37
\* the turns of a history that the second request did not append
Unmarked(h) == SelectSeq(h, LAMBDA m : "request" \notin DOMAIN m)

\* the turns of a history that the second request appended
MarkedTurns(h) ==
    {h[i] : i \in {i \in 1..Len(h) : "request" \in DOMAIN h[i]}}

\* the history as the running request of the first client last saved it
SavedByFirst ==
    IF Emitted("clarification_needed") THEN conversation
    ELSE PriorHistory \o <<UserMsg>>

\* C37: when two requests on one conversation have both finished, the
\* stored history holds every turn either of them appended and saved: the
\* turns of the second request, and the history the first one saved, user
\* turn and clarification turn included.
C37_NoLostTurn ==
    (pc = "done" /\ other_request.pc = "done") =>
        /\ MarkedTurns(other_request.conversation) \subseteq MarkedTurns(stored)
        /\ UserTurnAdded =>
              IsPrefix(Unmarked(SavedByFirst), Unmarked(stored))

\* ------------------------------------------------------------------ C38
\* the request went past the negotiator into the stages
InPipeline == Emitted("clarification_complete")

\* C38: on a turn that proceeds through the pipeline, complete is in the
\* stream only when the assistant turn has been appended to the stored
\* history; until the persistence step the stored history is the loaded
\* history with the user turn, and when a stage raises before that step the
\* stream ends in error, no assistant turn is stored for the turn and the
\* saved user turn is still the last stored turn.
C38_CompleteAfterPersist ==
    InPipeline =>
        /\ Emitted("complete") =>
              /\ pc = "done"
              /\ stored = Append(conversation, AssistantMsg)
        /\ ~Emitted("complete") =>
              /\ stored = conversation
              /\ stored[CurrentTurn] = UserMsg
              /\ CurrentTurn = Len(stored)
        /\ pc = "done" /\ ~Emitted("complete") =>
              events[Len(events)].type = "error"

C38_Witness ==
    /\ InPipeline
    /\ pc = "done"
    /\ events[Len(events)].type = "error"
    /\ Emitted("stage4_complete")
    /\ stored[Len(stored)] = UserMsg

\* ------------------------------------------------------------------ C39
\* the loaded history ends with the given turns
EndsWith(h, tail) ==
    /\ Len(h) >= Len(tail)
    /\ SubSeq(h, Len(h) - Len(tail) + 1, Len(h)) = tail

\* the loaded history holds the maximum number of clarification turns
Saturated == UserTurnAdded /\ PriorRounds >= MAX_ROUNDS

\* C39: once the history holds at least 4 clarification turns, no turn
\* calls the assessment; a turn that follows a completed pipeline run is
\* halted with the final-check question, and the turn after that one
\* proceeds through the pipeline and stores its assistant turn.
C39_SaturatedNegotiation ==
    Saturated =>
        /\ AssessCalls = <<>>
        /\ pc = "done" /\ EndsWith(PriorHistory, <<AssistantMsg>>) =>
              /\ conversation = PriorHistory \o <<UserMsg, FinalMsg>>
              /\ stored = conversation
              /\ Types = HaltOrder
        /\ pc = "done"
           /\ EndsWith(PriorHistory, <<AssistantMsg, UserMsg, FinalMsg>>) =>
              /\ Types = PipelineOrder
              /\ conversation = PriorHistory \o <<UserMsg>>
              /\ stored = Append(conversation, AssistantMsg)

C39_Witness ==
    /\ Saturated
    /\ pc = "done"
    /\ EndsWith(PriorHistory, <<AssistantMsg, UserMsg, FinalMsg>>)
    /\ stored[Len(stored)] = AssistantMsg
    /\ AssessCalls = <<>>

\* ------------------------------------------------------------------ C40
\* C40: truncate_with_sentence_boundary, keeping the beginning, applied to
\* a text longer than max_chars, returns a non-empty text that is a prefix
\* of the input or the first max_chars characters followed by '...'.
C40_NeverEmpty ==
    (pc = "truncated" /\ Len(raw_response) > max_chars) =>
        /\ optimized # <<>>
        /\ \/ IsPrefix(optimized, raw_response)
           \/ optimized = SubSeq(raw_response, 1, max_chars) \o <<".", ".", ".">>

====
